---------------------------- MODULE Spec2Model ----------------------------
(***************************************************************************)
(* A model of the Minecraft-schematic to Scrap-Mechanic-blueprint          *)
(* converter: the assembly passes of schematic_assembler.py                *)
(* (deduplicate_voxels, hollow_out_blueprint, split_blueprint_into_chunks, *)
(* the placement loop of assemble_blueprint), the schematic enumerator     *)
(* parse_schematic, the binary tag decoder of schematic_to_json.py, the    *)
(* voxelizer, the texture loader with its cache and the texture-variable   *)
(* resolution of model_parser.py.                                          *)
(*                                                                         *)
(* Every pass is a pure function of the part list it is handed, so each    *)
(* has a specification of its own whose initial states draw the input from *)
(* a bounded family and whose action applies the pass.                     *)
(***************************************************************************)
EXTENDS Integers, Sequences, FiniteSets, TLC

VARIABLES
    parts,       \* blueprint["bodies"][0]["childs"]: the part list
    parts0,      \* the part list the last pass was handed
    op,          \* the last pass applied to the part list
    chunks,      \* what split_blueprint_into_chunks returned
    maxVoxels,   \* max_voxels_per_chunk
    blocks,      \* schematic_data["blocks"]: the Placed Blocks of a run
    idx,         \* how many of them assemble_blueprint has processed
    blueprint_cache,  \* block name -> unit voxel list, as loaded
    missing,     \* stats["missing_blueprints"]
    pc,          \* where assemble_blueprint stands
    flags,       \* its hollow, split_chunks and generate_on_demand arguments
    written,     \* the part lists written as blueprint.json, in order
    stream,      \* the decompressed bytes handed to the tag decoder
    tree,        \* the tag tree the stream was encoded from
    damage,      \* what was done to the stream after encoding
    nbt,         \* what read_nbt_from_gzipped_file returned or raised
    schematic,   \* the schematic JSON handed to parse_schematic
    parsed,      \* what parse_schematic returned
    resolved_elements,  \* the model elements handed to voxelize_model
    grid_filled, \* its occupancy grid (filled): the cells it set True
    grid_colors, \* the voxel_colors that voxelize_model returned
    in_is_file,  \* whether the converter's input path is a file
    out_file,    \* what the converter wrote to its output path
    exit_code,   \* how schematic_to_json.main ended
    resolver_calls,  \* the block names load_blueprint_blocks was called with
    rotation_call,   \* the last call of rotate_position and what it returned
    texture_cache,   \* texture_loader._texture_cache: path -> image or None
    texture_disk,    \* the texture files as they are on disk now
    texture_loads,   \* the load_texture calls so far with what they returned
    raw_model,       \* the model handed to resolve_model
    resolved_model   \* what resolve_model returned

passVars == <<parts, parts0, op, chunks, maxVoxels>>

runVars == <<blocks, idx, blueprint_cache, missing, pc, flags, written>>

fileVars == <<stream, tree, damage, nbt, schematic, parsed>>

voxVars == <<resolved_elements, grid_filled, grid_colors>>

cliVars == <<in_is_file, out_file, exit_code>>

libVars == <<rotation_call, texture_cache, texture_disk, texture_loads,
             raw_model, resolved_model>>

vars == <<parts, parts0, op, chunks, maxVoxels,
          blocks, idx, blueprint_cache, missing, pc, flags, written,
          stream, tree, damage, nbt, schematic, parsed,
          resolved_elements, grid_filled, grid_colors,
          in_is_file, out_file, exit_code,
          resolver_calls, rotation_call, texture_cache, texture_disk,
          texture_loads, raw_model, resolved_model>>

-----------------------------------------------------------------------------
(* Helpers on sequences and coordinates.                                   *)

Range(s) == {s[i] : i \in DOMAIN s}

RECURSIVE Reverse(_)
Reverse(s) == IF s = <<>> THEN <<>> ELSE Append(Reverse(Tail(s)), Head(s))

RECURSIVE SelectRange(_, _, _, _)
\* the subsequence of s at the indices of lo..hi that lie in keep
SelectRange(s, keep, lo, hi) ==
    IF lo > hi THEN <<>>
    ELSE IF lo = hi THEN (IF lo \in keep THEN <<s[lo]>> ELSE <<>>)
    ELSE LET mid == (lo + hi) \div 2
         IN SelectRange(s, keep, lo, mid) \o SelectRange(s, keep, mid + 1, hi)

\* the subsequence of s at the indices i >= from that lie in keep
SelectIdx(s, keep, from) == SelectRange(s, keep, from, Len(s))

Positions(ps) == {ps[i].pos : i \in DOMAIN ps}

Min(S) == CHOOSE m \in S : \A n \in S : m <= n
Max(S) == CHOOSE m \in S : \A n \in S : m >= n

\* the six face neighbours, in the order the code lists them
Neighbors(p) ==
    << <<p[1] + 1, p[2], p[3]>>, <<p[1] - 1, p[2], p[3]>>,
       <<p[1], p[2] + 1, p[3]>>, <<p[1], p[2] - 1, p[3]>>,
       <<p[1], p[2], p[3] + 1>>, <<p[1], p[2], p[3] - 1>> >>

-----------------------------------------------------------------------------
(* deduplicate_voxels                                                      *)

RECURSIVE DedupScan(_, _, _)
\* the loop over reversed(parts): keeps a part when its key was not seen
DedupScan(rev, seen_positions, final_parts) ==
    IF rev = <<>> THEN final_parts
    ELSE LET part == Head(rev)
             key == part.pos
         IN IF key \notin seen_positions
            THEN DedupScan(Tail(rev), seen_positions \cup {key},
                           Append(final_parts, part))
            ELSE DedupScan(Tail(rev), seen_positions, final_parts)

\* the scan run forwards: the first part at a coordinate would win
DedupKeepFirst(ps) ==
    IF Len(ps) = 0 THEN ps ELSE DedupScan(ps, {}, <<>>)

deduplicate_voxels(ps) ==
    IF Len(ps) = 0 THEN ps
    ELSE Reverse(DedupScan(Reverse(ps), {}, <<>>))

-----------------------------------------------------------------------------
(* hollow_out_blueprint                                                    *)

\* position_map's key set
PositionMap(ps) == Positions(ps)

is_surface(p, position_map) ==
    \E n \in Range(Neighbors(p)) : n \notin position_map

\* the first loop: the keys given distance 0 and queued
SurfaceKeys(ps, position_map) ==
    {ps[i].pos : i \in {j \in DOMAIN ps : is_surface(ps[j].pos, position_map)}}

RECURSIVE BFS(_, _, _, _)
\* the while loop. The queue is first-in first-out, so it holds the keys of
\* distance d before those of distance d + 1: the loop is taken one distance
\* at a time, frontier being the queued keys of distance current_dist
BFS(frontier, current_dist, distance, position_map) ==
    IF frontier = {} THEN distance
    ELSE LET reached == UNION {Range(Neighbors(current)) : current \in frontier}
             fresh == {n \in reached :
                          n \in position_map /\ n \notin DOMAIN distance}
         IN BFS(fresh, current_dist + 1,
                [q \in (DOMAIN distance) \cup fresh |->
                    IF q \in DOMAIN distance THEN distance[q]
                    ELSE current_dist + 1],
                position_map)

Distance(ps) ==
    LET position_map == PositionMap(ps)
        surface == SurfaceKeys(ps, position_map)
    IN BFS(surface, 0, [q \in surface |-> 0], position_map)

\* a shell of surface voxels only
KeepPartSurfaceOnly(distance, key) ==
    (IF key \in DOMAIN distance THEN distance[key] ELSE 0) <= 0

\* the comparison turned round: keeps what lies away from the surface
KeepPartInverted(distance, key) ==
    (IF key \in DOMAIN distance THEN distance[key] ELSE 0) >= 1

\* distance.get(key, 0) <= 1
KeepPart(distance, key) ==
    (IF key \in DOMAIN distance THEN distance[key] ELSE 0) <= 1

hollow_out_blueprint(ps) ==
    IF Len(ps) = 0 THEN ps
    ELSE LET distance == Distance(ps)
         IN SelectIdx(ps, {i \in DOMAIN ps : KeepPart(distance, ps[i].pos)}, 1)

-----------------------------------------------------------------------------
(* split_blueprint_into_chunks                                             *)

\* Python's a // b for b > 0
FloorDiv(a, b) == a \div b

RECURSIVE CbrtFloor(_, _, _)
\* the largest d >= from with d^3 * n <= v
CbrtFloor(v, n, d) ==
    IF (d + 1) * (d + 1) * (d + 1) * n <= v THEN CbrtFloor(v, n, d + 1) ELSE d

\* int((v / n) ** (1/3)) in double arithmetic: the floor of the cube root,
\* except that an exact cube k^3 with k >= 4 comes out just below k
\* (64 ** (1/3) = 3.9999999999999996)
CbrtInt(v, n) ==
    LET d == CbrtFloor(v, n, 0)
    IN IF d >= 4 /\ d * d * d * n = v THEN d - 1 ELSE d

BoundingMin(ps) ==
    << Min({ps[i].pos[1] : i \in DOMAIN ps}),
       Min({ps[i].pos[2] : i \in DOMAIN ps}),
       Min({ps[i].pos[3] : i \in DOMAIN ps}) >>

BoundingMax(ps) ==
    << Max({ps[i].pos[1] : i \in DOMAIN ps}),
       Max({ps[i].pos[2] : i \in DOMAIN ps}),
       Max({ps[i].pos[3] : i \in DOMAIN ps}) >>

Totals(ps) ==
    [a \in 1..3 |-> BoundingMax(ps)[a] - BoundingMin(ps)[a] + 1]

MaxOf(a, b) == IF a >= b THEN a ELSE b

\* chunk_size is None: pre max_voxels >= 1
ChunkSize(ps, max_voxels) ==
    LET total == Totals(ps)
        num_chunks_needed == FloorDiv(Len(ps) + max_voxels - 1, max_voxels)
        volume == total[1] * total[2] * total[3]
        chunk_dimension ==
            MaxOf(1, IF num_chunks_needed > 0
                     THEN CbrtInt(volume, num_chunks_needed)
                     ELSE CbrtInt(volume, 1))
    IN [a \in 1..3 |->
          MaxOf(1, FloorDiv(total[a],
                            MaxOf(1, FloorDiv(total[a], chunk_dimension))))]

\* num_chunks_x, num_chunks_y, num_chunks_z
ChunkGrid(ps, chunk_size) ==
    [a \in 1..3 |-> FloorDiv(Totals(ps)[a] + chunk_size[a] - 1, chunk_size[a])]

\* a chunk index taken from the position itself, not from its offset
ChunkKeyNoOffset(pos, mins, chunk_size) ==
    [a \in 1..3 |-> FloorDiv(pos[a], chunk_size[a])]

ChunkKey(pos, mins, chunk_size) ==
    [a \in 1..3 |-> FloorDiv(pos[a] - mins[a], chunk_size[a])]

\* tuple order of Python's sorted()
KeyLess(k1, k2) ==
    \/ k1[1] < k2[1]
    \/ k1[1] = k2[1] /\ k1[2] < k2[2]
    \/ k1[1] = k2[1] /\ k1[2] = k2[2] /\ k1[3] < k2[3]

\* the keys of S in that order
SortKeys(S) ==
    [j \in 1..Cardinality(S) |->
        CHOOSE k \in S : Cardinality({o \in S : KeyLess(o, k)}) = j - 1]

\* chunks[chunk_key] assigned instead of appended to: the last part only
ChunkInfosOverwrite(ps, chunk_size) ==
    LET mins == BoundingMin(ps)
        keyOf(i) == ChunkKey(ps[i].pos, mins, chunk_size)
        keys == SortKeys({keyOf(i) : i \in DOMAIN ps})
    IN [n \in DOMAIN keys |->
          LET chunk_parts ==
                  <<ps[Max({i \in DOMAIN ps : keyOf(i) = keys[n]})]>>
          IN [blueprint |-> chunk_parts,
              chunk_index |-> keys[n],
              voxel_count |-> Len(chunk_parts)]]

\* the list of chunk-info dicts built from the chunks dict
ChunkInfos(ps, chunk_size) ==
    LET mins == BoundingMin(ps)
        keyOf(i) == ChunkKey(ps[i].pos, mins, chunk_size)
        keys == SortKeys({keyOf(i) : i \in DOMAIN ps})
    IN [n \in DOMAIN keys |->
          LET chunk_parts ==
                  SelectIdx(ps, {i \in DOMAIN ps : keyOf(i) = keys[n]}, 1)
          IN [blueprint |-> chunk_parts,
              chunk_index |-> keys[n],
              voxel_count |-> Len(chunk_parts)]]

-----------------------------------------------------------------------------
(* The passes as actions on the part list.                                 *)

Dedup ==
    /\ op = "none"
    /\ parts0' = parts
    /\ parts' = deduplicate_voxels(parts)
    /\ op' = "dedup"
    /\ UNCHANGED <<chunks, maxVoxels>>
    /\ UNCHANGED runVars
    /\ UNCHANGED fileVars
    /\ UNCHANGED voxVars
    /\ UNCHANGED cliVars
    /\ UNCHANGED libVars
    /\ UNCHANGED resolver_calls

\* hollowing, and hollowing of an already hollowed structure
Hollow ==
    /\ op \in {"none", "hollow"}
    /\ parts0' = parts
    /\ parts' = hollow_out_blueprint(parts)
    /\ op' = IF op = "none" THEN "hollow" ELSE "hollow2"
    /\ UNCHANGED <<chunks, maxVoxels>>
    /\ UNCHANGED runVars
    /\ UNCHANGED fileVars
    /\ UNCHANGED voxVars
    /\ UNCHANGED cliVars
    /\ UNCHANGED libVars
    /\ UNCHANGED resolver_calls

\* split_blueprint_into_chunks(blueprint, max_voxels_per_chunk): the early
\* returns hand back [blueprint]; max_voxels_per_chunk = 0 divides by zero
Split ==
    /\ op = "none"
    /\ parts0' = parts
    /\ UNCHANGED <<parts, maxVoxels>>
    /\ UNCHANGED runVars
    /\ UNCHANGED fileVars
    /\ UNCHANGED voxVars
    /\ UNCHANGED cliVars
    /\ UNCHANGED libVars
    /\ UNCHANGED resolver_calls
    /\ IF Len(parts) = 0 \/ Len(parts) <= maxVoxels
       THEN op' = "nosplit" /\ chunks' = <<>>
       ELSE IF maxVoxels = 0
       THEN op' = "split_error" /\ chunks' = <<>>
       ELSE /\ op' = "split"
            /\ chunks' = ChunkInfos(parts, ChunkSize(parts, maxVoxels))

-----------------------------------------------------------------------------
(* Bounded input families.                                                 *)

MaxParts == 4
HollowGrid == 5
MaxHoles == 2
SplitSpan == 3
MaxSplitParts == 3

\* SHAPE_IDS["wood2"]: the last of the three entries under that key
WOOD2 == "061b5d4b-0a6a-4212-b0ae-9e9681f1cbfb"

PLASTIC == "628b2d61-5ceb-43e9-8334-a4135566df7a"

\* the colour string '808080'
GRAY == <<"8", "0", "8", "0", "8", "0">>

MkPart(pos, shapeId, color, xaxis, zaxis) ==
    [bounds |-> <<1, 1, 1>>, shapeId |-> shapeId, color |-> color,
     pos |-> pos, xaxis |-> xaxis, zaxis |-> zaxis]

GrayPart(pos) == MkPart(pos, PLASTIC, GRAY, 1, 3)

\* no assemble_blueprint run is under way
NoRun ==
    /\ blocks = <<>>
    /\ idx = 0
    /\ blueprint_cache = <<>>
    /\ missing = {}
    /\ pc = "idle"
    /\ flags = [hollow |-> FALSE, split_chunks |-> FALSE,
                generate_on_demand |-> FALSE]
    /\ written = <<>>

\* nothing has been decoded or parsed
NoFiles ==
    /\ stream = <<>>
    /\ tree = [kind |-> "none"]
    /\ damage = "none"
    /\ nbt = [err |-> "unread"]
    /\ schematic = [format |-> "none"]
    /\ parsed = [status |-> "unread"]

NoModel ==
    /\ resolved_elements = <<>>
    /\ grid_filled = {}
    /\ grid_colors = <<>>

NoCli ==
    /\ in_is_file = FALSE
    /\ out_file = [state |-> "absent"]
    /\ exit_code = "unset"

\* no library function has been called
NoLib ==
    /\ resolver_calls = <<>>
    /\ rotation_call = [kind |-> "none"]
    /\ texture_cache = <<>>
    /\ texture_disk = <<>>
    /\ texture_loads = <<>>
    /\ raw_model = [kind |-> "none"]
    /\ resolved_model = [kind |-> "none"]

RECURSIVE SeqsUpTo(_, _)
\* the sequences over S of length at most n
SeqsUpTo(S, n) ==
    IF n = 0 THEN {<<>>}
    ELSE LET shorter == SeqsUpTo(S, n - 1)
         IN shorter \cup {Append(q, e) : q \in shorter, e \in S}

RECURSIVE SubsetsUpTo(_, _)
\* the subsets of S with at most n elements
SubsetsUpTo(S, n) ==
    IF n = 0 THEN {{}}
    ELSE LET smaller == SubsetsUpTo(S, n - 1)
         IN smaller \cup {T \cup {e} : T \in smaller, e \in S}

Cube(n) == (0..(n - 1)) \X (0..(n - 1)) \X (0..(n - 1))

\* the cells of Cube(n) in coordinate order
CubeSeq(n) ==
    [i \in 1..(n * n * n) |->
        <<(i - 1) \div (n * n), ((i - 1) \div n) % n, (i - 1) % n>>]

\* the gray parts at the cells of S, in coordinate order
PartsAt(S) == LET keys == SortKeys(S) IN [i \in DOMAIN keys |-> GrayPart(keys[i])]

\* the gray parts at the cells of Cube(n) outside holes, in coordinate order
CubeParts(n, holes) ==
    LET cells == CubeSeq(n)
        kept == SelectIdx(cells, {i \in DOMAIN cells : cells[i] \notin holes}, 1)
    IN [i \in DOMAIN kept |-> GrayPart(kept[i])]

DedupCoords == {<<0, 0, 0>>, <<1, 0, 0>>, <<0, -1, 16>>}

DedupChoices ==
    {MkPart(c, PLASTIC, GRAY, 1, 3) : c \in DedupCoords}
    \cup {MkPart(c, WOOD2, <<"A", "1", "B", "2", "C", "3">>, -3, 1) :
              c \in DedupCoords}

InitDedup ==
    /\ parts \in SeqsUpTo(DedupChoices, MaxParts)
    /\ parts0 = <<>>
    /\ NoRun
    /\ NoFiles
    /\ NoModel
    /\ NoCli
    /\ NoLib
    /\ op = "none"
    /\ chunks = <<>>
    /\ maxVoxels = 0

NextDedup == Dedup

SpecDedup == InitDedup /\ [][NextDedup]_vars

\* a filled cube with cells taken out of one octant (the others are mirror
\* images of it)
HoleCells == Cube((HollowGrid + 1) \div 2)

InitHollow ==
    /\ \E holes \in SubsetsUpTo(HoleCells, MaxHoles) :
           parts = CubeParts(HollowGrid, holes)
    /\ parts0 = <<>>
    /\ NoRun
    /\ NoFiles
    /\ NoModel
    /\ NoCli
    /\ NoLib
    /\ op = "none"
    /\ chunks = <<>>
    /\ maxVoxels = 0

NextHollow == Hollow

SpecHollow == InitHollow /\ [][NextHollow]_vars

\* the cells a split structure is drawn from: a slab SplitSpan + 1 long
SplitCells == (0..SplitSpan) \X {0, 1, 2} \X {0, 1}

InitSplit ==
    /\ \E S \in SubsetsUpTo(SplitCells, MaxSplitParts) :
           parts = PartsAt(S)
    /\ parts0 = <<>>
    /\ NoRun
    /\ NoFiles
    /\ NoModel
    /\ NoCli
    /\ NoLib
    /\ op = "none"
    /\ chunks = <<>>
    /\ maxVoxels \in 0..MaxSplitParts

NextSplit == Split

SpecSplit == InitSplit /\ [][NextSplit]_vars

-----------------------------------------------------------------------------
(* Claims about the passes.                                                *)

IndicesAt(ps, c) == {i \in DOMAIN ps : ps[i].pos = c}

\* C1: after deduplicate_voxels every coordinate held before the call holds
\* exactly one part, the one appended last at that coordinate, all of its
\* fields unchanged; no coordinate is lost and none is added.
C1_DedupLastWins ==
    op = "dedup" =>
        /\ Positions(parts) = Positions(parts0)
        /\ \A c \in Positions(parts0) :
               /\ Cardinality(IndicesAt(parts, c)) = 1
               /\ \A i \in IndicesAt(parts, c) :
                      parts[i] = parts0[Max(IndicesAt(parts0, c))]

\* two parts of different material, colour and orientation collided
C1_Witness ==
    /\ op = "dedup"
    /\ Len(parts) < Len(parts0)
    /\ \E i, j \in DOMAIN parts0 :
           /\ i < j
           /\ parts0[i].pos = parts0[j].pos
           /\ parts0[i].color # parts0[j].color

\* a voxel with an unoccupied 6-neighbour
Exposed(p, occupied) ==
    \E d \in {<<1, 0, 0>>, <<-1, 0, 0>>, <<0, 1, 0>>,
              <<0, -1, 0>>, <<0, 0, 1>>, <<0, 0, -1>>} :
        <<p[1] + d[1], p[2] + d[2], p[3] + d[3]>> \notin occupied

\* at distance at most 1 from the surface: exposed, or next to an exposed
\* voxel
NearSurface(p, occupied) ==
    \/ Exposed(p, occupied)
    \/ \E q \in occupied :
           /\ Exposed(q, occupied)
           /\ (IF p[1] >= q[1] THEN p[1] - q[1] ELSE q[1] - p[1])
              + (IF p[2] >= q[2] THEN p[2] - q[2] ELSE q[2] - p[2])
              + (IF p[3] >= q[3] THEN p[3] - q[3] ELSE q[3] - p[3]) = 1

\* C2: hollow_out_blueprint on a structure with unique coordinates retains a
\* voxel if and only if it lies at distance at most 1 from the surface, and
\* keeps the retained parts as they were and in their order.
C2_HollowRetainsNearSurface ==
    op \in {"hollow", "hollow2"} =>
        parts = SelectIdx(parts0,
                          {i \in DOMAIN parts0 :
                               NearSurface(parts0[i].pos, Positions(parts0))},
                          1)

\* a pass that removed a voxel and kept one that is not on the surface
C2_Witness ==
    /\ op = "hollow"
    /\ Len(parts) < Len(parts0)
    /\ \E i \in DOMAIN parts : ~Exposed(parts[i].pos, Positions(parts0))

\* C3: hollowing is idempotent: a second pass removes nothing.
C3_HollowIdempotent == op = "hollow2" => parts = parts0

\* a second pass over a structure the first pass had cut voxels out of
C3_Witness ==
    /\ op = "hollow2"
    /\ Len(parts0) < HollowGrid * HollowGrid * HollowGrid - MaxHoles

Count(s, e) == Cardinality({i \in DOMAIN s : s[i] = e})

RECURSIVE ConcatChunks(_, _)
\* the parts of the chunks from the n-th on, one after the other
ConcatChunks(cs, n) ==
    IF n > Len(cs) THEN <<>> ELSE cs[n].blueprint \o ConcatChunks(cs, n + 1)

RECURSIVE SumCounts(_, _)
SumCounts(cs, n) ==
    IF n > Len(cs) THEN 0 ELSE cs[n].voxel_count + SumCounts(cs, n + 1)

\* C4: when split_blueprint_into_chunks splits, the chunks' parts are the
\* input parts as a multiset, no part is in two chunks, no chunk is empty
\* and the reported voxel counts add up to the input's voxel count.
C4_SplitPartition ==
    op = "split" =>
        /\ \A e \in Range(parts0) \cup Range(ConcatChunks(chunks, 1)) :
               Count(ConcatChunks(chunks, 1), e) = Count(parts0, e)
        /\ \A a, b \in DOMAIN chunks :
               a # b => Range(chunks[a].blueprint)
                            \cap Range(chunks[b].blueprint) = {}
        /\ \A a \in DOMAIN chunks : Len(chunks[a].blueprint) >= 1
        /\ SumCounts(chunks, 1) = Len(parts0)

\* a split into several chunks, one of them holding several parts
C4_Witness ==
    /\ op = "split"
    /\ Len(chunks) >= 2
    /\ \E a \in DOMAIN chunks : Len(chunks[a].blueprint) >= 2

\* C5: every chunk split_blueprint_into_chunks returns holds at most
\* max_voxels_per_chunk voxels.
C5_ChunksBounded ==
    op = "split" =>
        \A a \in DOMAIN chunks : chunks[a].voxel_count <= maxVoxels

-----------------------------------------------------------------------------
(* Block names are character sequences, so that the substring tests of     *)
(* determine_rotation and get_shape_id_for_block are computed.             *)

UpperToLower ==
    [c \in {"A", "B", "C", "D", "E", "F", "G", "H", "I", "J", "K", "L", "M",
            "N", "O", "P", "Q", "R", "S", "T", "U", "V", "W", "X", "Y", "Z"}
     |-> CASE c = "A" -> "a" [] c = "B" -> "b" [] c = "C" -> "c"
           [] c = "D" -> "d" [] c = "E" -> "e" [] c = "F" -> "f"
           [] c = "G" -> "g" [] c = "H" -> "h" [] c = "I" -> "i"
           [] c = "J" -> "j" [] c = "K" -> "k" [] c = "L" -> "l"
           [] c = "M" -> "m" [] c = "N" -> "n" [] c = "O" -> "o"
           [] c = "P" -> "p" [] c = "Q" -> "q" [] c = "R" -> "r"
           [] c = "S" -> "s" [] c = "T" -> "t" [] c = "U" -> "u"
           [] c = "V" -> "v" [] c = "W" -> "w" [] c = "X" -> "x"
           [] c = "Y" -> "y" [] c = "Z" -> "z"]

\* str.lower()
Lower(str) ==
    [i \in DOMAIN str |->
        IF str[i] \in DOMAIN UpperToLower THEN UpperToLower[str[i]] ELSE str[i]]

\* sub in str
Contains(str, sub) ==
    \E i \in 0..(Len(str) - Len(sub)) :
        \A k \in DOMAIN sub : str[i + k] = sub[k]

sSTAIRS == <<"s", "t", "a", "i", "r", "s">>
sLOG == <<"l", "o", "g">>
sWOOD == <<"w", "o", "o", "d">>
sSLAB == <<"s", "l", "a", "b">>
sTORCH == <<"t", "o", "r", "c", "h">>
sBUTTON == <<"b", "u", "t", "t", "o", "n">>
sLEVER == <<"l", "e", "v", "e", "r">>
sFENCE_GATE == <<"f", "e", "n", "c", "e", "_", "g", "a", "t", "e">>
sDOOR == <<"d", "o", "o", "r">>

\* data_value & mask for data_value in 0..15 and the masks the code uses
BitAnd3(d) == d % 4
BitAnd7(d) == d % 8
BitAnd4(d) == ((d \div 4) % 2) * 4
BitAnd8(d) == ((d \div 8) % 2) * 8
BitAndC(d) == ((d \div 4) % 4) * 4

\* a table that takes every name for stairs
RotationStairsForAll(block_name, data_value) ==
    LET direction == BitAnd3(data_value)
        pair == CASE direction = 0 -> <<1, 3>>
                  [] direction = 1 -> <<-1, 3>>
                  [] direction = 2 -> <<3, 1>>
                  [] direction = 3 -> <<-3, 1>>
    IN IF BitAnd4(data_value) # 0 THEN <<pair[1], -pair[2]>> ELSE pair

\* determine_rotation(block_name, data_value): the pair (xaxis, zaxis)
determine_rotation(block_name, data_value) ==
    LET name == Lower(block_name)
    IN IF Contains(name, sSTAIRS) THEN
           LET direction == BitAnd3(data_value)
               upside_down == BitAnd4(data_value) # 0
               pair == CASE direction = 0 -> <<1, 3>>
                         [] direction = 1 -> <<-1, 3>>
                         [] direction = 2 -> <<3, 1>>
                         [] direction = 3 -> <<-3, 1>>
           IN IF upside_down THEN <<pair[1], -pair[2]>> ELSE pair
       ELSE IF Contains(name, sLOG) \/ Contains(name, sWOOD) THEN
           LET orientation == BitAndC(data_value)
           IN CASE orientation = 0 -> <<1, 2>>
                [] orientation = 4 -> <<2, 1>>
                [] orientation = 8 -> <<1, 3>>
                [] OTHER -> <<1, 3>>
       ELSE IF Contains(name, sSLAB) THEN
           IF BitAnd8(data_value) # 0 THEN <<1, 2>> ELSE <<1, -2>>
       ELSE IF Contains(name, sTORCH) THEN
           CASE data_value = 5 -> <<1, 2>>
             [] data_value = 1 -> <<1, 3>>
             [] data_value = 2 -> <<-1, 3>>
             [] data_value = 3 -> <<3, 1>>
             [] data_value = 4 -> <<-3, 1>>
             [] OTHER -> <<1, 3>>
       ELSE IF Contains(name, sBUTTON) \/ Contains(name, sLEVER) THEN
           LET direction == BitAnd7(data_value)
           IN CASE direction = 0 -> <<1, -2>>
                [] direction = 5 -> <<1, 2>>
                [] direction = 1 -> <<1, 3>>
                [] direction = 2 -> <<-1, 3>>
                [] direction = 3 -> <<3, 1>>
                [] direction = 4 -> <<-3, 1>>
                [] OTHER -> <<1, 3>>
       ELSE IF Contains(name, sFENCE_GATE) \/ Contains(name, sDOOR) THEN
           LET direction == BitAnd3(data_value)
           IN CASE direction = 0 -> <<3, 1>>
                [] direction = 1 -> <<-1, 3>>
                [] direction = 2 -> <<-3, 1>>
                [] direction = 3 -> <<1, 3>>
       ELSE <<1, 3>>

\* quarter turns that swap x and z without a change of sign
rotate_position_swap(pos, xaxis, zaxis) ==
    IF xaxis = -1 /\ zaxis = 3 THEN <<-pos[1], pos[2], -pos[3]>>
    ELSE IF (xaxis = 3 \/ xaxis = -3) /\ zaxis = 1 THEN <<pos[3], pos[2], pos[1]>>
    ELSE pos

\* rotate_position(pos, xaxis, zaxis); pos is <<x, y, z>>
rotate_position(pos, xaxis, zaxis) ==
    LET x == pos[1]
        y == pos[2]
        z == pos[3]
    IN IF xaxis = 1 /\ zaxis = 3 THEN <<x, y, z>>
       ELSE IF xaxis = -1 /\ zaxis = 3 THEN <<-x, y, -z>>
       ELSE IF xaxis = 3 /\ zaxis = 1 THEN <<z, y, -x>>
       ELSE IF xaxis = -3 /\ zaxis = 1 THEN <<-z, y, x>>
       ELSE <<x, y, z>>

-----------------------------------------------------------------------------
(* Unit blueprints: the voxel grid of a block type turned into parts, by   *)
(* the writer (pre-generated folder) or on demand.                          *)

sPLANKS == <<"p", "l", "a", "n", "k", "s">>
sTRAPDOOR == <<"t", "r", "a", "p", "d", "o", "o", "r">>
sSTONE == <<"s", "t", "o", "n", "e">>
sDIRT == <<"d", "i", "r", "t">>
sOAK_STAIRS == <<"o", "a", "k", "_", "s", "t", "a", "i", "r", "s">>

WoodNames ==
    {<<"o", "a", "k">>, <<"b", "i", "r", "c", "h">>,
     <<"s", "p", "r", "u", "c", "e">>, <<"j", "u", "n", "g", "l", "e">>,
     <<"a", "c", "a", "c", "i", "a">>,
     <<"d", "a", "r", "k", "_", "o", "a", "k">>,
     <<"m", "a", "n", "g", "r", "o", "v", "e">>,
     <<"c", "h", "e", "r", "r", "y">>,
     <<"c", "r", "i", "m", "s", "o", "n">>,
     <<"w", "a", "r", "p", "e", "d">>}

GLASS_SHAPE_ID == "b5ee5539-75a2-4fef-873b-ef7c9398b3f5"

DEFAULT_SHAPE_ID == PLASTIC

\* get_shape_id_for_block(block_name): every wood branch returns wood2
get_shape_id_for_block(block_name) ==
    LET block_lower == Lower(block_name)
    IN IF \E wood \in WoodNames : Contains(block_lower, wood)
       THEN IF Contains(block_lower, sPLANKS) \/ Contains(block_lower, sLOG)
               \/ Contains(block_lower, sWOOD)
            THEN WOOD2
            ELSE IF Contains(block_lower, sDOOR)
                    \/ Contains(block_lower, sTRAPDOOR)
            THEN WOOD2
            ELSE IF Contains(block_lower, sSTAIRS)
                    \/ Contains(block_lower, sSLAB)
            THEN WOOD2
            ELSE WOOD2
       ELSE DEFAULT_SHAPE_ID

HexDigits ==
    <<"0", "1", "2", "3", "4", "5", "6", "7",
      "8", "9", "A", "B", "C", "D", "E", "F">>

\* f"{n:02x}".upper() for n in 0..255
Hex2(n) == <<HexDigits[(n \div 16) + 1], HexDigits[(n % 16) + 1]>>

\* rgba_to_hex(rgb): the alpha component, when there is one, is dropped
rgba_to_hex(rgb) == Hex2(rgb[1]) \o Hex2(rgb[2]) \o Hex2(rgb[3])

\* a unit voxel: what load_blueprint_blocks and generate_block_on_demand
\* hand to the assembler
MkVoxel(pos, color, shapeId) ==
    [pos |-> pos, color |-> color, shapeId |-> shapeId, bounds |-> <<1, 1, 1>>]

\* len(color) > 3 and color[3] == 0
FullyTransparent(color) == Len(color) > 3 /\ color[4] = 0

\* the cells of a voxel grid that become parts, in the grid's order
OpaqueCells(voxel_colors) ==
    SelectSeq(voxel_colors, LAMBDA e : ~FullyTransparent(e[2]))

\* generate_block_on_demand: cell (x, y, z) becomes pos {x: x, y: z, z: y};
\* an empty grid is None
generate_block_on_demand(block_name, voxel_colors) ==
    LET kept == OpaqueCells(voxel_colors)
        shape_id == get_shape_id_for_block(block_name)
    IN [n \in DOMAIN kept |->
           MkVoxel(<<kept[n][1][1], kept[n][1][3], kept[n][1][2]>>,
                   rgba_to_hex(kept[n][2]), shape_id)]

\* export_blueprint's parts as load_blueprint_blocks reads them back:
\* alpha below 128 selects the glass material
ExportChilds(block_name, voxel_colors) ==
    LET kept == OpaqueCells(voxel_colors)
        base_shape_id == get_shape_id_for_block(block_name)
        is_transparent(color) == Len(color) > 3 /\ color[4] < 128
    IN [n \in DOMAIN kept |->
           MkVoxel(<<kept[n][1][1], kept[n][1][3], kept[n][1][2]>>,
                   rgba_to_hex(kept[n][2]),
                   IF is_transparent(kept[n][2]) THEN GLASS_SHAPE_ID
                                                 ELSE base_shape_id)]

\* str.replace('_', '')
StripUnderscores(str) == SelectSeq(str, LAMBDA c : c # "_")

\* the variations of a block name that load_blueprint_blocks tries
NameVariations(block_name) ==
    LET lower == Lower(block_name)
        normalized_name == StripUnderscores(lower)
        us == {i \in DOMAIN lower : lower[i] = "_"}
    IN IF us = {}
       THEN <<lower, normalized_name>>
       ELSE <<lower, normalized_name,
              SubSeq(lower, 1, Min(us) - 1),
              SubSeq(lower, Max(us) + 1, Len(lower)),
              normalized_name>>

\* whether a stored blueprint's name matches one of the variations
NameMatches(block_name, stored_name) ==
    LET bp_name == Lower(stored_name)
        bp_name_normalized == StripUnderscores(bp_name)
        variations == NameVariations(block_name)
    IN \E n \in DOMAIN variations :
        \/ Contains(bp_name, variations[n])
        \/ Contains(bp_name_normalized, variations[n])
        \/ Contains(variations[n], bp_name)
        \/ Contains(variations[n], bp_name_normalized)

\* load_blueprint_blocks: the first matching folder of the listing, else
\* generation on demand when enabled, else the empty list.  folder is the
\* listing, a sequence of [name, childs]; models gives the voxel grid the
\* voxelizer produces for a block name.
load_blueprint_blocks(folder, block_name, models, generate_on_demand) ==
    LET hits == {n \in DOMAIN folder : NameMatches(block_name, folder[n].name)}
    IN IF hits # {}
       THEN folder[Min(hits)].childs
       ELSE IF generate_on_demand /\ block_name \in DOMAIN models
       THEN generate_block_on_demand(block_name, models[block_name])
       ELSE <<>>

VOXEL_SCALE == 16

\* placement without the default cube: a block without a unit blueprint
\* adds nothing
PlaceVoxelsNoFallback(mc_block, block_blueprints) ==
    LET rot == determine_rotation(mc_block.name, mc_block.data)
    IN [n \in DOMAIN block_blueprints |->
           LET rotated_pos == rotate_position(block_blueprints[n].pos,
                                              rot[1], rot[2])
           IN [bounds |-> block_blueprints[n].bounds,
               shapeId |-> block_blueprints[n].shapeId,
               color |-> block_blueprints[n].color,
               pos |-> <<mc_block.x * 16 + rotated_pos[1],
                         mc_block.z * 16 + rotated_pos[3],
                         mc_block.y * 16 + rotated_pos[2]>>,
               xaxis |-> rot[1], zaxis |-> rot[2]]]

\* the parts one Minecraft block adds to the blueprint
PlaceVoxels(mc_block, block_blueprints) ==
    LET rot == determine_rotation(mc_block.name, mc_block.data)
        xaxis == rot[1]
        zaxis == rot[2]
        units == IF Len(block_blueprints) = 0
                 THEN <<MkVoxel(<<0, 0, 0>>, GRAY, PLASTIC)>>
                 ELSE block_blueprints
    IN [n \in DOMAIN units |->
           LET rotated_pos == rotate_position(units[n].pos, xaxis, zaxis)
               abs_pos == <<mc_block.x * VOXEL_SCALE + rotated_pos[1],
                            mc_block.z * VOXEL_SCALE + rotated_pos[3],
                            mc_block.y * VOXEL_SCALE + rotated_pos[2]>>
           IN [bounds |-> units[n].bounds, shapeId |-> units[n].shapeId,
               color |-> units[n].color, pos |-> abs_pos,
               xaxis |-> xaxis, zaxis |-> zaxis]]

-----------------------------------------------------------------------------
(* assemble_blueprint as a run: one step per Minecraft block, then the     *)
(* passes in the order of the code.                                         *)

MaxBlocks == 2
MaxAsmVoxels == 2

\* the voxel grids of the block models at hand, as (cell, colour) in the
\* order the voxelizer stored them; dirt has no model
Models ==
    (sSTONE :> <<<<<<0, 0, 0>>, <<200, 16, 255, 255>>>>,
                 <<<<1, 0, 0>>, <<10, 11, 12, 255>>>>,
                 <<<<1, 2, 3>>, <<0, 127, 128, 255>>>>,
                 <<<<2, 2, 2>>, <<9, 9, 9, 0>>>>>>)
    @@ (sOAK_STAIRS :> <<<<<<15, 0, 0>>, <<171, 205, 239>>>>,
                         <<<<0, 1, 0>>, <<1, 2, 3, 64>>>>>>)

\* the pre-generated blueprints folder holds the stone blueprint only
BlueprintsFolder ==
    <<[name |-> sSTONE, childs |-> ExportChilds(sSTONE, Models[sSTONE])]>>

\* block positions in the order parse_schematic emits them
AsmPositions == <<<<0, 0, 0>>, <<1, 0, 0>>, <<0, 0, 1>>, <<0, 1, 0>>>>

AsmKinds ==
    {<<sSTONE, 0>>, <<sOAK_STAIRS, 0>>, <<sOAK_STAIRS, 1>>,
     <<sOAK_STAIRS, 2>>, <<sDIRT, 0>>}

MkBlock(pos, kind) ==
    [x |-> pos[1], y |-> pos[2], z |-> pos[3], name |-> kind[1], data |-> kind[2]]

SortedSeq(S) ==
    [n \in 1..Cardinality(S) |->
        CHOOSE i \in S : Cardinality({j \in S : j < i}) = n - 1]

InitAsm ==
    /\ \E S \in SUBSET DOMAIN AsmPositions :
        /\ Cardinality(S) <= MaxBlocks
        /\ \E kinds \in [S -> AsmKinds] :
            LET order == SortedSeq(S)
            IN blocks = [n \in DOMAIN order |->
                            MkBlock(AsmPositions[order[n]], kinds[order[n]])]
    /\ flags \in [hollow : BOOLEAN, split_chunks : BOOLEAN,
                  generate_on_demand : BOOLEAN]
    /\ maxVoxels \in 0..MaxAsmVoxels
    /\ parts = <<>>
    /\ parts0 = <<>>
    /\ op = "run"
    /\ chunks = <<>>
    /\ idx = 0
    /\ blueprint_cache = <<>>
    /\ missing = {}
    /\ pc = "place"
    /\ written = <<>>
    /\ NoFiles
    /\ NoModel
    /\ NoCli
    /\ NoLib

\* an iteration that asks the resolver for every block, cached or not
AsmPlaceUncached ==
    /\ pc = "place"
    /\ UNCHANGED fileVars
    /\ UNCHANGED voxVars
    /\ UNCHANGED cliVars
    /\ UNCHANGED libVars
    /\ idx < Len(blocks)
    /\ LET mc_block == blocks[idx + 1]
           block_name == mc_block.name
           block_blueprints ==
               load_blueprint_blocks(BlueprintsFolder, block_name, Models,
                                     flags.generate_on_demand)
       IN /\ blueprint_cache' = (block_name :> block_blueprints) @@ blueprint_cache
          /\ resolver_calls' = Append(resolver_calls, block_name)
          /\ missing' = IF Len(block_blueprints) = 0
                        THEN missing \cup {block_name} ELSE missing
          /\ parts' = parts \o PlaceVoxels(mc_block, block_blueprints)
    /\ parts0' = parts
    /\ idx' = idx + 1
    /\ UNCHANGED <<op, chunks, maxVoxels, blocks, pc, flags, written>>

\* one iteration of the loop over schematic_data['blocks']
AsmPlace ==
    /\ pc = "place"
    /\ UNCHANGED fileVars
    /\ UNCHANGED voxVars
    /\ UNCHANGED cliVars
    /\ UNCHANGED libVars
    /\ idx < Len(blocks)
    /\ LET mc_block == blocks[idx + 1]
           block_name == mc_block.name
           cached == block_name \in DOMAIN blueprint_cache
           block_blueprints ==
               IF cached THEN blueprint_cache[block_name]
               ELSE load_blueprint_blocks(BlueprintsFolder, block_name, Models,
                                          flags.generate_on_demand)
       IN /\ blueprint_cache' =
                 IF cached THEN blueprint_cache
                 ELSE (block_name :> block_blueprints) @@ blueprint_cache
          /\ resolver_calls' = IF cached THEN resolver_calls
                               ELSE Append(resolver_calls, block_name)
          /\ missing' = IF Len(block_blueprints) = 0
                        THEN missing \cup {block_name} ELSE missing
          /\ parts' = parts \o PlaceVoxels(mc_block, block_blueprints)
    /\ parts0' = parts
    /\ idx' = idx + 1
    /\ UNCHANGED <<op, chunks, maxVoxels, blocks, pc, flags, written>>

\* deduplication that does not wait for the end of the loop
AsmDedupEarly ==
    /\ pc = "place"
    /\ UNCHANGED fileVars
    /\ UNCHANGED voxVars
    /\ UNCHANGED cliVars
    /\ UNCHANGED libVars
    /\ UNCHANGED resolver_calls
    /\ parts0' = parts
    /\ parts' = deduplicate_voxels(parts)
    /\ pc' = "hollow"
    /\ UNCHANGED <<op, chunks, maxVoxels, blocks, idx, blueprint_cache,
                   missing, flags, written>>

\* after the loop: deduplicate_voxels
AsmDedup ==
    /\ pc = "place"
    /\ UNCHANGED fileVars
    /\ UNCHANGED voxVars
    /\ UNCHANGED cliVars
    /\ UNCHANGED libVars
    /\ UNCHANGED resolver_calls
    /\ idx = Len(blocks)
    /\ parts0' = parts
    /\ parts' = deduplicate_voxels(parts)
    /\ pc' = "hollow"
    /\ UNCHANGED <<op, chunks, maxVoxels, blocks, idx, blueprint_cache,
                   missing, flags, written>>

\* if hollow: hollow_out_blueprint, then the reduction percentage, which
\* divides by the part count before hollowing
AsmHollow ==
    /\ pc = "hollow"
    /\ UNCHANGED fileVars
    /\ UNCHANGED voxVars
    /\ UNCHANGED cliVars
    /\ UNCHANGED libVars
    /\ UNCHANGED resolver_calls
    /\ parts0' = parts
    /\ IF ~flags.hollow
       THEN pc' = "split" /\ parts' = parts
       ELSE /\ parts' = hollow_out_blueprint(parts)
            /\ pc' = IF Len(parts) = 0 THEN "error" ELSE "split"
    /\ UNCHANGED <<op, chunks, maxVoxels, blocks, idx, blueprint_cache,
                   missing, flags, written>>

WholeBlueprint(ps) ==
    <<[blueprint |-> ps, chunk_index |-> <<0, 0, 0>>, voxel_count |-> Len(ps)]>>

\* blueprint_chunks: the split result when it has several chunks, else the
\* whole blueprint
AsmSplit ==
    /\ pc = "split"
    /\ UNCHANGED fileVars
    /\ UNCHANGED voxVars
    /\ UNCHANGED cliVars
    /\ UNCHANGED libVars
    /\ UNCHANGED resolver_calls
    /\ IF ~flags.split_chunks \/ Len(parts) = 0 \/ Len(parts) <= maxVoxels
       THEN chunks' = WholeBlueprint(parts) /\ pc' = "write"
       ELSE IF maxVoxels = 0
       THEN chunks' = chunks /\ pc' = "error"
       ELSE LET chunks_info == ChunkInfos(parts, ChunkSize(parts, maxVoxels))
            IN /\ chunks' = IF Len(chunks_info) > 1 THEN chunks_info
                            ELSE WholeBlueprint(parts)
               /\ pc' = "write"
    /\ UNCHANGED <<parts, parts0, op, maxVoxels, blocks, idx, blueprint_cache,
                   missing, flags, written>>

\* every chunk's blueprint.json is written
AsmWrite ==
    /\ pc = "write"
    /\ UNCHANGED fileVars
    /\ UNCHANGED voxVars
    /\ UNCHANGED cliVars
    /\ UNCHANGED libVars
    /\ UNCHANGED resolver_calls
    /\ written' = [n \in DOMAIN chunks |-> chunks[n].blueprint]
    /\ pc' = "done"
    /\ UNCHANGED <<parts, parts0, op, chunks, maxVoxels, blocks, idx,
                   blueprint_cache, missing, flags>>

NextAsm == AsmPlace \/ AsmDedup \/ AsmHollow \/ AsmSplit \/ AsmWrite

SpecAsm == InitAsm /\ [][NextAsm]_vars

\* the block the last AsmPlace step handled
LastBlock == blocks[idx]

\* the parts the last AsmPlace step appended
LastPlaced == SubSeq(parts, Len(parts0) + 1, Len(parts))

\* C6: for a block at (bx, by, bz) with orientation (1, 3) whose unit
\* blueprint came from a voxel grid, the grid cell (i, j, k) (j up, k depth)
\* is placed at (16*bx + i, 16*bz + k, 16*by + j)
C6_AxisMapping ==
    (/\ pc = "place"
     /\ idx > 0
     /\ determine_rotation(LastBlock.name, LastBlock.data) = <<1, 3>>
     /\ LastBlock.name \notin missing)
    => LET cells == OpaqueCells(Models[LastBlock.name])
       IN /\ Len(LastPlaced) = Len(cells)
          /\ \A n \in DOMAIN cells :
                LastPlaced[n].pos =
                    <<16 * LastBlock.x + cells[n][1][1],
                      16 * LastBlock.z + cells[n][1][3],
                      16 * LastBlock.y + cells[n][1][2]>>

\* what the code places instead: up and depth of the unit-local offset are
\* exchanged
AxisMappingAsCoded ==
    (/\ pc = "place"
     /\ idx > 0
     /\ determine_rotation(LastBlock.name, LastBlock.data) = <<1, 3>>
     /\ LastBlock.name \notin missing)
    => LET cells == OpaqueCells(Models[LastBlock.name])
       IN /\ Len(LastPlaced) = Len(cells)
          /\ \A n \in DOMAIN cells :
                LastPlaced[n].pos =
                    <<16 * LastBlock.x + cells[n][1][1],
                      16 * LastBlock.z + cells[n][1][2],
                      16 * LastBlock.y + cells[n][1][3]>>

-----------------------------------------------------------------------------
(* The tag decoder of schematic_to_json.py.  The stream f is a sequence of *)
(* bytes 0..255 and pos the number of bytes read so far.  A reader returns *)
(* [err, val, pos]; err is "" or the exception raised, and a raising       *)
(* reader returns nothing else.                                             *)

TAG_End == 0
TAG_Byte == 1
TAG_Short == 2
TAG_Int == 3
TAG_Long == 4
TAG_Float == 5
TAG_Double == 6
TAG_Byte_Array == 7
TAG_String == 8
TAG_List == 9
TAG_Compound == 10
TAG_Int_Array == 11
TAG_Long_Array == 12

Raise(e) == [err |-> e]
Return(v, pos) == [err |-> "", val |-> v, pos |-> pos]

\* the Python values the decoder builds.  An int is kept as its 64-bit
\* two's complement, a float as the bits of its double.
PyNone == [py |-> "None"]
PyInt(be) == [py |-> "int", be |-> be]
PyFloat(bits) == [py |-> "float", bits |-> bits]
PyStr(chars) == [py |-> "str", chars |-> chars]
PyList(items) == [py |-> "list", items |-> items]
PyDict(entries) == [py |-> "dict", entries |-> entries]

\* a reader that returns fewer bytes than asked for instead of raising
ReadExactLenient(f, pos, n) ==
    Return([i \in 1..MaxOf(n, 0) |-> IF pos + i <= Len(f) THEN f[pos + i] ELSE 0],
           pos + MaxOf(n, 0))

\* f.read(n) with n < 0 reads to the end, and the length
\* test then fails as well
_read_exact(f, pos, n) ==
    IF n < 0 \/ pos + n > Len(f)
    THEN Raise("EOFError")
    ELSE Return(SubSeq(f, pos + 1, pos + n), pos + n)

\* an unpacking that takes every integer for unsigned
ZeroExtend(bytes) == [i \in 1..(8 - Len(bytes)) |-> 0] \o bytes

\* struct.unpack of a big-endian signed integer, as a Python int
SignExtend(bytes) ==
    LET fill == IF bytes[1] >= 128 THEN 255 ELSE 0
    IN [i \in 1..(8 - Len(bytes)) |-> fill] \o bytes

\* a byte of a bytes object as a Python int: 0..255
Unsigned(b) == <<0, 0, 0, 0, 0, 0, 0, b>>

\* the value of a big-endian unsigned short
UShortValue(b) == b[1] * 256 + b[2]

\* the value of a big-endian signed int
IntValue(b) ==
    (IF b[1] >= 128 THEN b[1] - 256 ELSE b[1]) * 16777216
        + b[2] * 65536 + b[3] * 256 + b[4]

\* struct.unpack(">f"): the double with the value of the single, for zero,
\* normal numbers, infinities and NaNs; a subnormal single is left unscaled
FloatToDouble(b) ==
    LET sign == b[1] \div 128
        e == (b[1] % 128) * 2 + (b[2] \div 128)
        m == (b[2] % 128) * 65536 + b[3] * 256 + b[4]
        e11 == IF e = 0 THEN 0 ELSE IF e = 255 THEN 2047 ELSE e + 896
    IN <<sign * 128 + (e11 \div 16),
         (e11 % 16) * 16 + (m \div 524288),
         (m % 524288) \div 2048,
         (m % 2048) \div 8,
         (m % 8) * 32,
         0, 0, 0>>

RECURSIVE Utf8Decode(_)
\* bytes.decode("utf-8") for one- and two-byte sequences: the code points,
\* or <<-1>> when the bytes are not valid
Utf8Decode(b) ==
    IF Len(b) = 0 THEN <<>>
    ELSE IF b[1] < 128
    THEN LET rest == Utf8Decode(Tail(b))
         IN IF rest = <<-1>> THEN rest ELSE <<b[1]>> \o rest
    ELSE IF b[1] \in 194..223 /\ Len(b) >= 2 /\ b[2] \in 128..191
    THEN LET rest == Utf8Decode(SubSeq(b, 3, Len(b)))
         IN IF rest = <<-1>> THEN rest
            ELSE <<(b[1] - 192) * 64 + (b[2] - 128)>> \o rest
    ELSE <<-1>>

\* _read_byte
_read_byte(f, pos) ==
    LET r == _read_exact(f, pos, 1)
    IN IF r.err # "" THEN r ELSE Return(r.val[1], r.pos)

\* _read_int, as a number
_read_int(f, pos) ==
    LET r == _read_exact(f, pos, 4)
    IN IF r.err # "" THEN r ELSE Return(IntValue(r.val), r.pos)

\* _read_string
_read_string(f, pos) ==
    LET l == _read_exact(f, pos, 2)
    IN IF l.err # "" THEN l
       ELSE IF UShortValue(l.val) = 0 THEN Return(<<>>, l.pos)
       ELSE LET r == _read_exact(f, l.pos, UShortValue(l.val))
            IN IF r.err # "" THEN r
               ELSE IF Utf8Decode(r.val) = <<-1>>
               THEN Raise("UnicodeDecodeError")
               ELSE Return(Utf8Decode(r.val), r.pos)

\* obj[name] = payload on the entries of a dict, kept in insertion order
DictSet(entries, name, payload) ==
    IF \E i \in DOMAIN entries : entries[i].name = name
    THEN [i \in DOMAIN entries |->
             IF entries[i].name = name
             THEN [name |-> name, value |-> payload] ELSE entries[i]]
    ELSE Append(entries, [name |-> name, value |-> payload])

RECURSIVE _read_tag_payload(_, _, _)
RECURSIVE ReadItems(_, _, _, _, _)
RECURSIVE ReadCompound(_, _, _)

\* [_read_tag_payload(f, child_type) for _ in range(length)], and with
\* child_type TAG_Int or TAG_Long the loops of the int and long arrays
ReadItems(f, pos, child_type, length, items) ==
    IF length <= 0 THEN Return(PyList(items), pos)
    ELSE LET r == _read_tag_payload(f, pos, child_type)
         IN IF r.err # "" THEN r
            ELSE ReadItems(f, r.pos, child_type, length - 1,
                           Append(items, r.val))

\* the while loop of a compound
ReadCompound(f, pos, obj) ==
    LET t == _read_byte(f, pos)
    IN IF t.err # "" THEN t
       ELSE IF t.val = TAG_End THEN Return(PyDict(obj), t.pos)
       ELSE LET name == _read_string(f, t.pos)
            IN IF name.err # "" THEN name
               ELSE LET payload == _read_tag_payload(f, name.pos, t.val)
                    IN IF payload.err # "" THEN payload
                       ELSE ReadCompound(f, payload.pos,
                                DictSet(obj, name.val, payload.val))

_read_tag_payload(f, pos, tag_type) ==
    IF tag_type = TAG_End THEN Return(PyNone, pos)
    ELSE IF tag_type \in {TAG_Byte, TAG_Short, TAG_Int, TAG_Long}
    THEN LET r == _read_exact(f, pos, CASE tag_type = TAG_Byte -> 1
                                        [] tag_type = TAG_Short -> 2
                                        [] tag_type = TAG_Int -> 4
                                        [] tag_type = TAG_Long -> 8)
         IN IF r.err # "" THEN r ELSE Return(PyInt(SignExtend(r.val)), r.pos)
    ELSE IF tag_type = TAG_Float
    THEN LET r == _read_exact(f, pos, 4)
         IN IF r.err # "" THEN r
            ELSE Return(PyFloat(FloatToDouble(r.val)), r.pos)
    ELSE IF tag_type = TAG_Double
    THEN LET r == _read_exact(f, pos, 8)
         IN IF r.err # "" THEN r ELSE Return(PyFloat(r.val), r.pos)
    ELSE IF tag_type = TAG_Byte_Array
    THEN LET length == _read_int(f, pos)
         IN IF length.err # "" THEN length
            ELSE LET r == _read_exact(f, length.pos, length.val)
                 IN IF r.err # "" THEN r
                    ELSE Return(PyList([i \in DOMAIN r.val |->
                                           PyInt(Unsigned(r.val[i]))]), r.pos)
    ELSE IF tag_type = TAG_String
    THEN LET r == _read_string(f, pos)
         IN IF r.err # "" THEN r ELSE Return(PyStr(r.val), r.pos)
    ELSE IF tag_type = TAG_List
    THEN LET child_type == _read_byte(f, pos)
         IN IF child_type.err # "" THEN child_type
            ELSE LET length == _read_int(f, child_type.pos)
                 IN IF length.err # "" THEN length
                    ELSE ReadItems(f, length.pos, child_type.val,
                                   length.val, <<>>)
    ELSE IF tag_type = TAG_Compound THEN ReadCompound(f, pos, <<>>)
    ELSE IF tag_type \in {TAG_Int_Array, TAG_Long_Array}
    THEN LET length == _read_int(f, pos)
         IN IF length.err # "" THEN length
            ELSE ReadItems(f, length.pos,
                           IF tag_type = TAG_Int_Array THEN TAG_Int
                                                       ELSE TAG_Long,
                           length.val, <<>>)
    ELSE Raise("ValueError")

\* _read_named_tag: (name, payload, tag_type)
_read_named_tag(f, pos) ==
    LET tag_type == _read_byte(f, pos)
    IN IF tag_type.err # "" THEN tag_type
       ELSE IF tag_type.val = TAG_End
       THEN Return([name |-> PyNone, payload |-> PyNone,
                    tag_type |-> TAG_End], tag_type.pos)
       ELSE LET name == _read_string(f, tag_type.pos)
            IN IF name.err # "" THEN name
               ELSE LET payload == _read_tag_payload(f, name.pos, tag_type.val)
                    IN IF payload.err # "" THEN payload
                       ELSE Return([name |-> PyStr(name.val),
                                    payload |-> payload.val,
                                    tag_type |-> tag_type.val], payload.pos)

\* read_nbt_from_gzipped_file on the decompressed stream: (name, payload),
\* or the exception
read_nbt_from_gzipped_file(f) ==
    LET r == _read_named_tag(f, 0)
    IN IF r.err # "" THEN r
       ELSE IF r.val.tag_type # TAG_Compound THEN Raise("ValueError")
       ELSE [err |-> "", name |-> r.val.name, payload |-> r.val.payload]

-----------------------------------------------------------------------------
(* Tag trees and their canonical encoding: the streams handed to the       *)
(* decoder.  A node is [kind, ...] with kind the tag type.                  *)

MaxMembers == 2

TNum(kind, n) == [kind |-> kind, num |-> n]
\* a float carries its four bytes and the bits of the double of its value
TFloat(single, value) == [kind |-> TAG_Float, single |-> single, value |-> value]
TDouble(value) == [kind |-> TAG_Double, value |-> value]
TArray(kind, nums) == [kind |-> kind, nums |-> nums]
TString(chars) == [kind |-> TAG_String, chars |-> chars]
TList(etype, elems) == [kind |-> TAG_List, etype |-> etype, elems |-> elems]
TCompound(members) == [kind |-> TAG_Compound, members |-> members]
Member(name, tag) == [name |-> name, tag |-> tag]

RECURSIVE Flatten(_)
Flatten(ss) == IF Len(ss) = 0 THEN <<>> ELSE Head(ss) \o Flatten(Tail(ss))

\* the w low bytes of the two's complement of n, big-endian (|n| < 2^31)
BE(n, w) ==
    LET m == IF n >= 0 THEN n ELSE -n - 1
        low == <<(m \div 16777216) % 256, (m \div 65536) % 256,
                 (m \div 256) % 256, m % 256>>
        full == [i \in 1..8 |->
                    LET b == IF i <= 4 THEN 0 ELSE low[i - 4]
                    IN IF n >= 0 THEN b ELSE 255 - b]
    IN SubSeq(full, 9 - w, 8)

\* UTF-8 of code points below 2048
Utf8Encode(chars) ==
    Flatten([i \in DOMAIN chars |->
                IF chars[i] < 128 THEN <<chars[i]>>
                ELSE <<192 + (chars[i] \div 64), 128 + (chars[i] % 64)>>])

EncString(chars) ==
    LET b == Utf8Encode(chars)
    IN <<Len(b) \div 256, Len(b) % 256>> \o b

Width(kind) ==
    CASE kind \in {TAG_Byte, TAG_Byte_Array} -> 1
      [] kind = TAG_Short -> 2
      [] kind \in {TAG_Int, TAG_Int_Array} -> 4
      [] kind \in {TAG_Long, TAG_Long_Array} -> 8

RECURSIVE EncPayload(_)
EncPayload(node) ==
    CASE node.kind \in {TAG_Byte, TAG_Short, TAG_Int, TAG_Long} ->
            BE(node.num, Width(node.kind))
      [] node.kind = TAG_Float -> node.single
      [] node.kind = TAG_Double -> node.value
      [] node.kind \in {TAG_Byte_Array, TAG_Int_Array, TAG_Long_Array} ->
            BE(Len(node.nums), 4)
                \o Flatten([i \in DOMAIN node.nums |->
                               BE(node.nums[i], Width(node.kind))])
      [] node.kind = TAG_String -> EncString(node.chars)
      [] node.kind = TAG_List ->
            <<node.etype>> \o BE(Len(node.elems), 4)
                \o Flatten([i \in DOMAIN node.elems |->
                               EncPayload(node.elems[i])])
      [] node.kind = TAG_Compound ->
            Flatten([i \in DOMAIN node.members |->
                        <<node.members[i].tag.kind>>
                            \o EncString(node.members[i].name)
                            \o EncPayload(node.members[i].tag)])
                \o <<TAG_End>>

\* the stream of a named root tag
Encode(name, node) == <<node.kind>> \o EncString(name) \o EncPayload(node)

RECURSIVE SumLen(_, _)
\* the total length of the first n sequences of ss
SumLen(ss, n) == IF n = 0 THEN 0 ELSE Len(ss[n]) + SumLen(ss, n - 1)

RECURSIVE TypeOffsets(_, _)
\* the stream indices of the tag-type bytes inside the payload of node,
\* which starts after base bytes: list element types, member types and
\* compound terminators
TypeOffsets(node, base) ==
    CASE node.kind = TAG_List ->
            LET encs == [i \in DOMAIN node.elems |-> EncPayload(node.elems[i])]
            IN {base + 1} \cup
               UNION {TypeOffsets(node.elems[i], base + 5 + SumLen(encs, i - 1))
                        : i \in DOMAIN node.elems}
      [] node.kind = TAG_Compound ->
            LET encs == [i \in DOMAIN node.members |->
                            <<node.members[i].tag.kind>>
                                \o EncString(node.members[i].name)
                                \o EncPayload(node.members[i].tag)]
                start(i) == base + SumLen(encs, i - 1)
            IN {start(i) + 1 : i \in DOMAIN node.members}
               \cup {base + SumLen(encs, Len(encs)) + 1}
               \cup UNION {TypeOffsets(node.members[i].tag,
                              start(i) + 1
                                + Len(EncString(node.members[i].name)))
                             : i \in DOMAIN node.members}
      [] OTHER -> {}

\* the tag-type bytes of a whole stream, the root's included
RootTypeOffsets(name, node) ==
    {1} \cup TypeOffsets(node, 1 + Len(EncString(name)))

\* the tags a root compound is filled with: every supported kind, with the
\* empty string, empty lists, empty arrays and nested compounds
TagFamily ==
    {TNum(TAG_Byte, 1), TNum(TAG_Byte, -1), TNum(TAG_Short, 1),
     TNum(TAG_Int, 1), TNum(TAG_Int, -2), TNum(TAG_Long, 1),
     TFloat(<<63, 128, 0, 0>>, <<63, 240, 0, 0, 0, 0, 0, 0>>),
     TFloat(<<61, 204, 204, 205>>, <<63, 185, 153, 153, 160, 0, 0, 0>>),
     TDouble(<<63, 240, 0, 0, 0, 0, 0, 0>>),
     TArray(TAG_Byte_Array, <<>>), TArray(TAG_Byte_Array, <<-1, 2>>),
     TArray(TAG_Int_Array, <<1>>), TArray(TAG_Long_Array, <<-1>>),
     TString(<<>>), TString(<<97>>), TString(<<233>>),
     TList(TAG_End, <<>>), TList(TAG_Byte, <<>>),
     TList(TAG_Byte, <<TNum(TAG_Byte, -1), TNum(TAG_Byte, 2)>>),
     TList(TAG_Compound, <<TCompound(<<>>)>>),
     TCompound(<<>>),
     TCompound(<<Member(<<97>>, TNum(TAG_Byte, 1))>>)}

\* member names, one per slot of the root compound: "", "a", "b", "ab"
MemberNames == <<<<>>, <<97>>, <<98>>, <<97, 98>>>>

\* the root's name, "S"
RootName == <<83>>

\* the root compounds with at most MaxMembers members
Trees ==
    UNION {{TCompound([i \in 1..n |-> Member(MemberNames[i], tags[i])])
              : tags \in [1..n -> TagFamily]} : n \in 0..MaxMembers}

\* tag-type values the decoder does not know
UnknownTypes == {13, 255}

InitNbt ==
    /\ tree \in Trees
    /\ stream = Encode(RootName, tree)
    /\ damage = "none"
    /\ nbt = [err |-> "unread"]
    /\ schematic = [format |-> "none"]
    /\ parsed = [status |-> "unread"]
    /\ parts = <<>>
    /\ parts0 = <<>>
    /\ op = "decode"
    /\ chunks = <<>>
    /\ maxVoxels = 0
    /\ NoRun
    /\ NoModel
    /\ NoCli
    /\ NoLib

\* the file ends early
Truncate ==
    /\ op = "decode"
    /\ damage = "none"
    /\ nbt.err = "unread"
    /\ \E n \in 0..(Len(stream) - 1) : stream' = SubSeq(stream, 1, n)
    /\ damage' = "truncated"
    /\ UNCHANGED <<tree, nbt, schematic, parsed>>
    /\ UNCHANGED passVars
    /\ UNCHANGED runVars
    /\ UNCHANGED voxVars
    /\ UNCHANGED cliVars
    /\ UNCHANGED libVars
    /\ UNCHANGED resolver_calls

\* one tag-type byte of the file holds an unknown type
UnknownType ==
    /\ op = "decode"
    /\ damage = "none"
    /\ nbt.err = "unread"
    /\ \E i \in RootTypeOffsets(RootName, tree), t \in UnknownTypes :
          stream' = [stream EXCEPT ![i] = t]
    /\ damage' = "badtype"
    /\ UNCHANGED <<tree, nbt, schematic, parsed>>
    /\ UNCHANGED passVars
    /\ UNCHANGED runVars
    /\ UNCHANGED voxVars
    /\ UNCHANGED cliVars
    /\ UNCHANGED libVars
    /\ UNCHANGED resolver_calls

\* read_nbt_from_gzipped_file
ReadNbt ==
    /\ op = "decode"
    /\ nbt.err = "unread"
    /\ nbt' = read_nbt_from_gzipped_file(stream)
    /\ UNCHANGED <<stream, tree, damage, schematic, parsed>>
    /\ UNCHANGED passVars
    /\ UNCHANGED runVars
    /\ UNCHANGED voxVars
    /\ UNCHANGED cliVars
    /\ UNCHANGED libVars
    /\ UNCHANGED resolver_calls

NextNbt == Truncate \/ UnknownType \/ ReadNbt

SpecNbt == InitNbt /\ [][NextNbt]_vars

\* C7: a stream that ends before the root tag is complete makes the decoder
\* raise, and nothing of the tree is returned
C7_TruncationIsFatal ==
    (damage = "truncated" /\ nbt.err # "unread")
        => nbt = [err |-> "EOFError"]

\* a stream that lacks only the root compound's terminator was refused
C7_Witness ==
    /\ damage = "truncated"
    /\ Len(stream) = Len(Encode(RootName, tree)) - 1
    /\ Len(tree.members) = MaxMembers
    /\ nbt = [err |-> "EOFError"]

\* C8: a tag-type byte outside 0..12, wherever the decoder reads one, makes
\* the decoder raise
C8_UnknownTypeIsFatal ==
    (damage = "badtype" /\ nbt.err # "unread") => nbt.err # ""

RECURSIVE Erase(_)
\* the content of a tag with the kinds taken away: what a reader that keeps
\* values only can hand back.  Byte-array elements count as 0..255.
Erase(node) ==
    CASE node.kind \in {TAG_Byte, TAG_Short, TAG_Int, TAG_Long} ->
            PyInt(BE(node.num, 8))
      [] node.kind \in {TAG_Float, TAG_Double} -> PyFloat(node.value)
      [] node.kind = TAG_Byte_Array ->
            PyList([i \in DOMAIN node.nums |->
                       PyInt(BE(node.nums[i] % 256, 8))])
      [] node.kind \in {TAG_Int_Array, TAG_Long_Array} ->
            PyList([i \in DOMAIN node.nums |-> PyInt(BE(node.nums[i], 8))])
      [] node.kind = TAG_String -> PyStr(node.chars)
      [] node.kind = TAG_List ->
            PyList([i \in DOMAIN node.elems |-> Erase(node.elems[i])])
      [] node.kind = TAG_Compound ->
            PyDict([i \in DOMAIN node.members |->
                       [name |-> node.members[i].name,
                        value |-> Erase(node.members[i].tag)]])

-----------------------------------------------------------------------------
(* The schematic enumerator parse_schematic.  Block-state strings are      *)
(* character sequences.                                                     *)

\* the index of the first c in str, 0 when there is none
IndexOf(str, c) ==
    IF \E i \in DOMAIN str : str[i] = c
    THEN Min({i \in DOMAIN str : str[i] = c}) ELSE 0

RECURSIVE SplitOn(_, _)
\* str.split(c)
SplitOn(str, c) ==
    IF IndexOf(str, c) = 0 THEN <<str>>
    ELSE <<SubSeq(str, 1, IndexOf(str, c) - 1)>>
            \o SplitOn(SubSeq(str, IndexOf(str, c) + 1, Len(str)), c)

\* str.split(c, 1)[1], for a str that holds c
AfterFirst(str, c) == SubSeq(str, IndexOf(str, c) + 1, Len(str))

RECURSIVE RStrip(_, _)
\* str.rstrip(c)
RStrip(str, c) ==
    IF Len(str) > 0 /\ str[Len(str)] = c
    THEN RStrip(SubSeq(str, 1, Len(str) - 1), c) ELSE str

RECURSIVE PropsOf(_, _)
\* the loop over props_str.split(','): a prop without '=' is skipped
PropsOf(props, properties) ==
    IF Len(props) = 0 THEN properties
    ELSE LET prop == Head(props)
         IN PropsOf(Tail(props),
                IF IndexOf(prop, "=") = 0 THEN properties
                ELSE DictSet(properties,
                             SubSeq(prop, 1, IndexOf(prop, "=") - 1),
                             AfterFirst(prop, "=")))

\* a parse that leaves the namespace on the name
ParseBlockStateKeepNamespace(block_state) ==
    IF IndexOf(block_state, "[") # 0
    THEN <<SubSeq(block_state, 1, IndexOf(block_state, "[") - 1), <<>>>>
    ELSE <<block_state, <<>>>>

\* parse_block_state(block_state): (block_name, properties)
parse_block_state(block_state) ==
    LET bare == IF IndexOf(block_state, ":") # 0
                THEN AfterFirst(block_state, ":") ELSE block_state
    IN IF IndexOf(bare, "[") # 0
       THEN LET pieces == SplitOn(bare, "[")
                props_str == RStrip(pieces[2], "]")
            IN <<pieces[1],
                 IF Len(props_str) = 0 THEN <<>>
                 ELSE PropsOf(SplitOn(props_str, ","), <<>>)>>
       ELSE <<bare, <<>>>>

sAIR == <<"a", "i", "r">>
sMINECRAFT_AIR == <<"m", "i", "n", "e", "c", "r", "a", "f", "t", ":", "a", "i", "r">>

\* a lookup that takes an id outside the palette for the palette's last
\* state
BlockStateOfNoDefault(palette, palette_id) ==
    LET hits == {i \in DOMAIN palette : palette[i].id = palette_id}
    IN IF hits = {} THEN palette[Len(palette)].state
       ELSE palette[Max(hits)].state

\* id_to_block_state.get(palette_id, 'minecraft:air'): the palette is the
\* sequence of its (state, id) items, and of two states with one id the
\* later stays in the reverse mapping
BlockStateOf(palette, palette_id) ==
    LET hits == {i \in DOMAIN palette : palette[i].id = palette_id}
    IN IF hits = {} THEN sMINECRAFT_AIR ELSE palette[Max(hits)].state

\* the cells in the order of the loops, X outermost
LoopCellsXOuter(width, height, length) ==
    Flatten([xx \in 1..width |->
        Flatten([zz \in 1..length |->
            [yy \in 1..height |-> <<xx - 1, yy - 1, zz - 1>>]])])

\* for y in range(height): for z in range(length): for x in range(width)
LoopCells(width, height, length) ==
    Flatten([yy \in 1..height |->
        Flatten([zz \in 1..length |->
            [xx \in 1..width |-> <<xx - 1, yy - 1, zz - 1>>]])])

\* index = (y * length + z) * width + x
CellIndex(x, y, z, width, length) == (y * length + z) * width + x

sUNKNOWN == <<"u", "n", "k", "n", "o", "w", "n">>

\* get_block_name(block_id, data_value) of block_ids: the lookup of a
\* legacy numeric id, here a table of three ids
get_block_name(block_id, data_value) ==
    CASE block_id = 1 -> sSTONE
      [] block_id = 3 -> sDIRT
      [] block_id = 53 -> sOAK_STAIRS
      [] OTHER -> sUNKNOWN

\* the block a cell of a palette schematic yields
PaletteBlock(sch, cell) ==
    LET index == CellIndex(cell[1], cell[2], cell[3], sch.Width, sch.Length)
        palette_id == sch.Data[index + 1]
        block_state == BlockStateOf(sch.Palette, palette_id)
        parsed_state == parse_block_state(block_state)
    IN [x |-> cell[1], y |-> cell[2], z |-> cell[3],
        block_id |-> PyNone, data |-> 0, name |-> parsed_state[1],
        properties |-> parsed_state[2], block_state |-> block_state]

\* the block a cell of a legacy schematic yields
LegacyBlock(sch, cell) ==
    LET index == CellIndex(cell[1], cell[2], cell[3], sch.Width, sch.Length)
        block_id == sch.Blocks[index + 1]
        data_value == sch.Data[index + 1]
    IN [x |-> cell[1], y |-> cell[2], z |-> cell[3],
        block_id |-> block_id, data |-> data_value,
        name |-> get_block_name(block_id, data_value)]

\* parse_schematic on the loaded JSON: air cells are skipped; a root
\* without a 'Schematic' key raises
parse_schematic(sch) ==
    IF sch.wrapper = "none" THEN [status |-> "ValueError"]
    ELSE LET cells == LoopCells(sch.Width, sch.Height, sch.Length)
             kept == IF sch.format = "palette"
                     THEN SelectSeq(cells,
                              LAMBDA c : PaletteBlock(sch, c).name # sAIR)
                     ELSE SelectSeq(cells,
                              LAMBDA c : LegacyBlock(sch, c).block_id # 0)
         IN [status |-> "ok",
             width |-> sch.Width, height |-> sch.Height, length |-> sch.Length,
             blocks |-> [n \in DOMAIN kept |->
                            IF sch.format = "palette"
                            THEN PaletteBlock(sch, kept[n])
                            ELSE LegacyBlock(sch, kept[n])]]

MaxDim == 2
MaxFilled == 2

\* 'minecraft:stone'
sMINECRAFT_STONE ==
    <<"m", "i", "n", "e", "c", "r", "a", "f", "t", ":", "s", "t",
      "o", "n", "e">>

\* 'minecraft:oak_stairs[facing=east,half=top]'
sMINECRAFT_OAK_STAIRS ==
    <<"m", "i", "n", "e", "c", "r", "a", "f", "t", ":", "o", "a",
      "k", "_", "s", "t", "a", "i", "r", "s", "[", "f", "a", "c",
      "i", "n", "g", "=", "e", "a", "s", "t", ",", "h", "a", "l",
      "f", "=", "t", "o", "p", "]">>

\* the palette of the schematics at hand
Palette ==
    <<[state |-> sMINECRAFT_AIR, id |-> 0],
      [state |-> sMINECRAFT_STONE, id |-> 1],
      [state |-> sMINECRAFT_OAK_STAIRS, id |-> 2]>>

\* what a filled cell holds: palette ids (7 is in no palette) and legacy
\* (id, data) pairs
PaletteKinds == <<1, 2, 7>>
LegacyKinds == <<<<1, 0>>, <<53, 3>>, <<3, 15>>>>

InitEnum ==
    /\ \E width \in 1..MaxDim, height \in {1, 2}, length \in 1..MaxDim :
       \E filled \in SubsetsUpTo(1..(width * height * length), MaxFilled) :
       \E kinds \in [filled -> 1..3] :
       \E format \in {"legacy", "palette"}, wrapper \in {"Schematic", "", "none"} :
          schematic =
              IF format = "palette"
              THEN [wrapper |-> wrapper, format |-> format,
                    Width |-> width, Height |-> height, Length |-> length,
                    Palette |-> Palette,
                    Data |-> [n \in 1..(width * height * length) |->
                                 IF n \in filled THEN PaletteKinds[kinds[n]]
                                 ELSE 0]]
              ELSE [wrapper |-> wrapper, format |-> format,
                    Width |-> width, Height |-> height, Length |-> length,
                    Blocks |-> [n \in 1..(width * height * length) |->
                                   IF n \in filled THEN LegacyKinds[kinds[n]][1]
                                   ELSE 0],
                    Data |-> [n \in 1..(width * height * length) |->
                                 IF n \in filled THEN LegacyKinds[kinds[n]][2]
                                 ELSE 0]]
    /\ parsed = [status |-> "unread"]
    /\ stream = <<>>
    /\ tree = [kind |-> "none"]
    /\ damage = "none"
    /\ nbt = [err |-> "unread"]
    /\ parts = <<>>
    /\ parts0 = <<>>
    /\ op = "parse"
    /\ chunks = <<>>
    /\ maxVoxels = 0
    /\ NoRun
    /\ NoModel
    /\ NoCli
    /\ NoLib

\* parse_schematic
Parse ==
    /\ op = "parse"
    /\ parsed.status = "unread"
    /\ parsed' = parse_schematic(schematic)
    /\ UNCHANGED <<stream, tree, damage, nbt, schematic>>
    /\ UNCHANGED passVars
    /\ UNCHANGED runVars
    /\ UNCHANGED voxVars
    /\ UNCHANGED cliVars
    /\ UNCHANGED libVars
    /\ UNCHANGED resolver_calls

NextEnum == Parse

SpecEnum == InitEnum /\ [][NextEnum]_vars

\* the flat index of an emitted block
FlatIndex(b) == (b.y * schematic.Length + b.z) * schematic.Width + b.x

\* C10: the emitted blocks are strictly increasing in (y*L + z)*W + x, so Y
\* is outermost and X innermost, and each carries what the flat array holds
\* at that index, in the legacy and in the palette encoding
C10_EnumeratorOrder ==
    parsed.status = "ok" =>
        /\ \A n \in DOMAIN parsed.blocks :
            LET b == parsed.blocks[n]
            IN /\ b.x \in 0..(schematic.Width - 1)
               /\ b.y \in 0..(schematic.Height - 1)
               /\ b.z \in 0..(schematic.Length - 1)
               /\ IF schematic.format = "legacy"
                  THEN /\ b.block_id = schematic.Blocks[FlatIndex(b) + 1]
                       /\ b.data = schematic.Data[FlatIndex(b) + 1]
                  ELSE \E i \in DOMAIN schematic.Palette :
                          /\ schematic.Palette[i].state = b.block_state
                          /\ schematic.Palette[i].id
                                = schematic.Data[FlatIndex(b) + 1]
        /\ \A n, m \in DOMAIN parsed.blocks :
              n < m => FlatIndex(parsed.blocks[n]) < FlatIndex(parsed.blocks[m])

\* a palette schematic of width 2 and length 1 whose two blocks differ in
\* y and in x
C10_Witness ==
    /\ parsed.status = "ok"
    /\ schematic.format = "palette"
    /\ schematic.Width = 2
    /\ schematic.Length = 1
    /\ Len(parsed.blocks) = 2
    /\ parsed.blocks[1].x = 1
    /\ parsed.blocks[1].y = 0
    /\ parsed.blocks[2].x = 0
    /\ parsed.blocks[2].y = 1

\* the bare name of a block state: what follows the namespace, up to the
\* properties
BareName(state) ==
    LET bare == IF IndexOf(state, ":") # 0 THEN AfterFirst(state, ":")
                ELSE state
    IN IF IndexOf(bare, "[") # 0 THEN SubSeq(bare, 1, IndexOf(bare, "[") - 1)
       ELSE bare

\* whether the cell stored at flat position n (from 1) is air
IsAirCell(sch, n) ==
    IF sch.format = "legacy" THEN sch.Blocks[n] = 0
    ELSE LET hits == {i \in DOMAIN sch.Palette :
                        sch.Palette[i].id = sch.Data[n]}
         IN \/ hits = {}
            \/ BareName(sch.Palette[Max(hits)].state) = sAIR

\* C11: every non-air cell of the schematic is emitted exactly once and no
\* air cell is emitted
C11_EnumeratorComplete ==
    parsed.status = "ok" =>
        \A n \in 1..(schematic.Width * schematic.Height * schematic.Length) :
            Cardinality({i \in DOMAIN parsed.blocks :
                            FlatIndex(parsed.blocks[i]) = n - 1})
                = IF IsAirCell(schematic, n) THEN 0 ELSE 1

\* a palette schematic with a stone cell, a cell whose id is in no palette
\* entry and air cells yields the stone block alone
C11_Witness ==
    /\ parsed.status = "ok"
    /\ schematic.format = "palette"
    /\ \E n \in DOMAIN schematic.Data : schematic.Data[n] = 7
    /\ \E n \in DOMAIN schematic.Data : schematic.Data[n] = 0
    /\ Len(parsed.blocks) = 1
    /\ parsed.blocks[1].name = sSTONE

\* 'minecraft:dirt'
sMINECRAFT_DIRT ==
    <<"m", "i", "n", "e", "c", "r", "a", "f", "t", ":", "d", "i",
      "r", "t">>

\* the palette that names every block of the legacy table
TwinPalette == Append(Palette, [state |-> sMINECRAFT_DIRT, id |-> 3])

\* the palette id whose state has the name of a legacy id
TwinId(block_id) ==
    CASE block_id = 0 -> 0
      [] block_id = 1 -> 1
      [] block_id = 53 -> 2
      [] block_id = 3 -> 3

\* the palette schematic with the layout of a legacy schematic
PaletteTwin(sch) ==
    [wrapper |-> sch.wrapper, format |-> "palette",
     Width |-> sch.Width, Height |-> sch.Height, Length |-> sch.Length,
     Palette |-> TwinPalette,
     Data |-> [n \in DOMAIN sch.Blocks |-> TwinId(sch.Blocks[n])]]

\* position and resolved name of the blocks of a parse result
PlacedNames(result) ==
    [i \in DOMAIN result.blocks |->
        <<result.blocks[i].x, result.blocks[i].y, result.blocks[i].z,
          result.blocks[i].name>>]

\* C12: a legacy schematic and the palette schematic of the same layout,
\* with a legacy lookup that gives the palette's bare names, enumerate
\* blocks of the same positions and names, in the same order
C12_PaletteLegacyEquivalent ==
    (parsed.status = "ok" /\ schematic.format = "legacy")
        => /\ \A i \in DOMAIN TwinPalette :
                \A n \in DOMAIN schematic.Blocks :
                    TwinId(schematic.Blocks[n]) = TwinPalette[i].id
                        /\ schematic.Blocks[n] # 0
                    => get_block_name(schematic.Blocks[n], schematic.Data[n])
                         = BareName(TwinPalette[i].state)
           /\ parse_schematic(PaletteTwin(schematic)).status = "ok"
           /\ PlacedNames(parse_schematic(PaletteTwin(schematic)))
                = PlacedNames(parsed)

\* a legacy schematic with a stairs block of data 3 and a dirt block
C12_Witness ==
    /\ parsed.status = "ok"
    /\ schematic.format = "legacy"
    /\ Len(parsed.blocks) = 2
    /\ \E i \in DOMAIN parsed.blocks :
          parsed.blocks[i].name = sOAK_STAIRS /\ parsed.blocks[i].data = 3
    /\ \E i \in DOMAIN parsed.blocks : parsed.blocks[i].name = sDIRT
    /\ Len(parse_schematic(PaletteTwin(schematic)).blocks) = 2

-----------------------------------------------------------------------------
(* determine_rotation over every rule of its table: runs of one block.     *)

\* names for every rule, for two rules at once, and for none
RotNames ==
    {<<"O", "a", "k", "_", "S", "t", "a", "i", "r", "s">>,
     <<"o", "a", "k", "_", "l", "o", "g">>,
     <<"s", "t", "r", "i", "p", "p", "e", "d", "_", "w", "o", "o",
       "d">>,
     <<"s", "t", "o", "n", "e", "_", "s", "l", "a", "b">>,
     <<"w", "a", "l", "l", "_", "t", "o", "r", "c", "h">>,
     <<"s", "t", "o", "n", "e", "_", "b", "u", "t", "t", "o", "n">>,
     <<"l", "e", "v", "e", "r">>,
     <<"o", "a", "k", "_", "f", "e", "n", "c", "e", "_", "g", "a",
       "t", "e">>,
     <<"i", "r", "o", "n", "_", "d", "o", "o", "r">>,
     <<"w", "o", "o", "d", "e", "n", "_", "d", "o", "o", "r">>,
     <<"s", "t", "o", "n", "e">>,
     <<"g", "l", "a", "s", "s", "_", "p", "a", "n", "e">>}

InitRot ==
    /\ \E name \in RotNames, data \in 0..15 :
          blocks = <<MkBlock(<<0, 0, 0>>, <<name, data>>)>>
    /\ flags = [hollow |-> FALSE, split_chunks |-> FALSE,
                generate_on_demand |-> FALSE]
    /\ maxVoxels = 0
    /\ parts = <<>>
    /\ parts0 = <<>>
    /\ op = "run"
    /\ chunks = <<>>
    /\ idx = 0
    /\ blueprint_cache = <<>>
    /\ missing = {}
    /\ pc = "place"
    /\ written = <<>>
    /\ NoFiles
    /\ NoModel
    /\ NoCli
    /\ NoLib

SpecRot == InitRot /\ [][NextAsm]_vars

AxisCodes == {1, -1, 2, -2, 3, -3}

Abs(n) == IF n < 0 THEN -n ELSE n

RuleWords ==
    {sSTAIRS, sLOG, sWOOD, sSLAB, sTORCH, sBUTTON, sLEVER, sFENCE_GATE, sDOOR}

\* C13: the pair assemble_blueprint gets from determine_rotation has both
\* components in {1,-1,2,-2,3,-3} on different axes, and is (1, 3) for a
\* name with none of the rule words
C13_RotationTotal ==
    \A n \in DOMAIN parts :
        /\ parts[n].xaxis \in AxisCodes
        /\ parts[n].zaxis \in AxisCodes
        /\ Abs(parts[n].xaxis) # Abs(parts[n].zaxis)
        /\ (\A w \in RuleWords : ~Contains(Lower(blocks[1].name), w))
              => parts[n].xaxis = 1 /\ parts[n].zaxis = 3

\* a log of data 4 was placed lying east-west
C13_Witness ==
    /\ idx = 1
    /\ Contains(blocks[1].name, sLOG)
    /\ blocks[1].data = 4
    /\ Len(parts) = 1
    /\ parts[1].xaxis = 2
    /\ parts[1].zaxis = 1

-----------------------------------------------------------------------------
(* Voxelization: voxelizer.py and texture_loader.py.                        *)
(* The coordinates of a model element are floats in the code.  Here they   *)
(* are integers in half-cell units: a bound of 3 stands for 1.5, and the   *)
(* centre i + 0.5 of cell i is 2 * i + 1.  Texture coordinates are         *)
(* fractions <<n, d>> with d > 0.  Every value the element family below    *)
(* produces is a small dyadic number or a quotient that is far from the    *)
(* next pixel boundary unless it is exactly on it, so the float            *)
(* operations of the code decide every comparison as the exact values do.  *)

NoImage == [kind |-> "None"]

NoColor == <<>>

\* an RGBA image of one colour
UniformImage(width, height, color) ==
    [kind |-> "image", size |-> <<width, height>>,
     pixels |-> [p \in (0..(width - 1)) \X (0..(height - 1)) |-> color]]

\* texture_loader.load_texture over the texture files at hand: None for a
\* path that is no file and for a file that does not open as an image
load_texture(files, file_path) ==
    IF file_path \notin DOMAIN files THEN NoImage
    ELSE IF files[file_path].kind # "image" THEN NoImage
    ELSE files[file_path]

\* max(0.0, min(1.0, x))
Clamp01(x) ==
    IF x[1] < 0 THEN <<0, 1>> ELSE IF x[1] > x[2] THEN <<1, 1>> ELSE x

\* a sampler that never returns a colour
SampleNothing(img, uv_coords) == NoColor

\* texture_loader.sample_texture; getpixel cannot fail on clamped indices
sample_texture(img, uv_coords) ==
    IF img.kind = "None" THEN NoColor
    ELSE LET width == img.size[1]
             height == img.size[2]
         IN IF width = 0 \/ height = 0 THEN NoColor
            ELSE LET u == Clamp01(uv_coords[1])
                     v == Clamp01(uv_coords[2])
                     px0 == FloorDiv(u[1] * width, u[2])
                     py0 == FloorDiv(v[1] * height, v[2])
                     px == IF px0 >= width THEN width - 1
                           ELSE IF px0 < 0 THEN 0 ELSE px0
                     py == IF py0 >= height THEN height - 1
                           ELSE IF py0 < 0 THEN 0 ELSE py0
                 IN img.pixels[<<px, py>>]

\* dict.get(key, default)
Get(d, key, default) == IF key \in DOMAIN d THEN d[key] ELSE default

FaceNames == {"up", "north", "south", "east", "west", "down"}

\* the images of the faces whose texture_file is set and loads
FaceImages(files, elements) ==
    {load_texture(files, e.faces[f].texture_file) :
        <<e, f>> \in {<<e, f>> \in Range(elements) \X FaceNames :
                         /\ f \in DOMAIN e.faces
                         /\ "texture_file" \in DOMAIN e.faces[f]}}
    \ {NoImage}

DEFAULT_N == 16

\* N: 16, or the largest texture dimension when that is larger
GridN(files, elements) ==
    Max({DEFAULT_N} \cup UNION {{img.size[1], img.size[2]} :
                                   img \in FaceImages(files, elements)})

\* math.floor and math.ceil of a half-unit value, in cells
FloorHalf(h) == FloorDiv(h, 2)
CeilHalf(h) == -FloorDiv(-h, 2)

\* range(min_x, max_x) of one axis
IndexRange(f, t, N) ==
    MaxOf(0, FloorHalf(IF f <= t THEN f ELSE t))
        .. ((IF N <= CeilHalf(MaxOf(f, t)) THEN N ELSE CeilHalf(MaxOf(f, t))) - 1)

\* math.sin and math.cos of an angle in degrees that is a multiple of 90
SinDeg(angle) ==
    LET a == angle % 360 IN IF a = 90 THEN 1 ELSE IF a = 270 THEN -1 ELSE 0

CosDeg(angle) ==
    LET a == angle % 360 IN IF a = 0 THEN 1 ELSE IF a = 180 THEN -1 ELSE 0

\* rotated: the element has a rotation with an axis and a non-zero angle
Rotated(elem) ==
    /\ "rotation" \in DOMAIN elem
    /\ Get(elem.rotation, "axis", "None") # "None"
    /\ Get(elem.rotation, "angle", 0) # 0

\* the centre of a cell taken back to the element's local coordinates
LocalPoint(elem, cell) ==
    LET rot == elem.rotation
        o == Get(rot, "origin", <<0, 0, 0>>)
        sin_a == SinDeg(rot.angle)
        cos_a == CosDeg(rot.angle)
        tx_ == 2 * cell[1] + 1 - o[1]
        ty_ == 2 * cell[2] + 1 - o[2]
        tz_ == 2 * cell[3] + 1 - o[3]
        r == IF rot.axis = "x"
             THEN <<tx_, ty_ * cos_a + tz_ * sin_a, -ty_ * sin_a + tz_ * cos_a>>
             ELSE IF rot.axis = "y"
             THEN <<tx_ * cos_a + tz_ * sin_a, ty_, -tx_ * sin_a + tz_ * cos_a>>
             ELSE <<tx_ * cos_a - ty_ * sin_a, tx_ * sin_a + ty_ * cos_a, tz_>>
    IN <<r[1] + o[1], r[2] + o[2], r[3] + o[3]>>

\* bounds closed at both ends
InBoundsClosed(elem, p) ==
    \A a \in 1..3 : ~(p[a] < elem.from[a] \/ p[a] > elem.to[a])

\* the point p lies in the half-open bounds of the element
InBounds(elem, p) ==
    \A a \in 1..3 : ~(p[a] < elem.from[a] \/ p[a] >= elem.to[a])

CellCentre(cell) == <<2 * cell[1] + 1, 2 * cell[2] + 1, 2 * cell[3] + 1>>

\* the cells one element sets True: only cells of its index range are tried
ElementCells(elem, N) ==
    {cell \in IndexRange(elem.from[1], elem.to[1], N)
              \X IndexRange(elem.from[2], elem.to[2], N)
              \X IndexRange(elem.from[3], elem.to[3], N) :
        IF Rotated(elem) THEN InBounds(elem, LocalPoint(elem, cell))
        ELSE InBounds(elem, CellCentre(cell))}

\* the grid filled after the loop over the elements
Filled(elements, N) == UNION {ElementCells(e, N) : e \in Range(elements)}


\* the order in which the faces of a cell are tried
face_order == <<"up", "north", "south", "east", "west", "down">>

\* (di, dj, dk) of a face
FaceDelta(face) ==
    IF face = "up" THEN <<0, 1, 0>>
    ELSE IF face = "down" THEN <<0, -1, 0>>
    ELSE IF face = "north" THEN <<0, 0, -1>>
    ELSE IF face = "south" THEN <<0, 0, 1>>
    ELSE IF face = "west" THEN <<-1, 0, 0>>
    ELSE <<1, 0, 0>>

\* no face is ever skipped
NeighborNeverFilled(cells, N, cell, face) == FALSE

\* the face is skipped: its neighbour lies in the grid and is filled
NeighborFilled(cells, N, cell, face) ==
    LET d == FaceDelta(face)
        neighbor == <<cell[1] + d[1], cell[2] + d[2], cell[3] + d[3]>>
    IN /\ \A a \in 1..3 : 0 <= neighbor[a] /\ neighbor[a] < N
       /\ neighbor \in cells

\* the axis a face is normal to, and the bound of the element it lies on
FaceAxis(face) ==
    IF face \in {"up", "down"} THEN 2
    ELSE IF face \in {"north", "south"} THEN 3 ELSE 1

FaceBound(elem, face) ==
    IF face \in {"up", "south", "east"} THEN elem.to[FaceAxis(face)]
    ELSE elem.from[FaceAxis(face)]

\* the element covers the cell on the side of the face: the centre lies in
\* its bounds (rotation ignored) and within 0.6 of the face's plane, and the
\* element has a non-empty entry for the face
CoversFace(elem, cell, face) ==
    LET c == CellCentre(cell)
        axis == FaceAxis(face)
        d == c[axis] - FaceBound(elem, face)
    IN /\ InBounds(elem, c)
       /\ (IF d < 0 THEN -d ELSE d) * 5 < 6
       /\ \A a \in (1..3) \ {axis} : elem.from[a] <= c[a] /\ c[a] < elem.to[a]
       /\ face \in DOMAIN elem.faces
       /\ DOMAIN elem.faces[face] # {}

\* 1.0 - x
OneMinus(x) == <<x[2] - x[1], x[2]>>

\* (u_frac, v_frac) of the cell on a face of the element, before the
\* face's own rotation
FaceFracs(elem, cell, face) ==
    LET c == CellCentre(cell)
        alongX == <<c[1] - elem.from[1], elem.to[1] - elem.from[1]>>
        alongZ == <<c[3] - elem.from[3], elem.to[3] - elem.from[3]>>
        downY == <<elem.to[2] - c[2], elem.to[2] - elem.from[2]>>
    IN IF face = "north" THEN <<alongX, downY>>
       ELSE IF face = "south" THEN <<OneMinus(alongX), downY>>
       ELSE IF face = "west" THEN <<alongZ, downY>>
       ELSE IF face = "east" THEN <<OneMinus(alongZ), downY>>
       ELSE IF face = "up" THEN <<alongX, alongZ>>
       ELSE <<alongX, OneMinus(alongZ)>>

\* the face's rotation of 90, 180 or 270 degrees applied to the fractions
RotateFracs(fracs, rot) ==
    IF rot = 90 THEN <<OneMinus(fracs[2]), fracs[1]>>
    ELSE IF rot = 180 THEN <<OneMinus(fracs[1]), OneMinus(fracs[2])>>
    ELSE IF rot = 270 THEN <<fracs[2], OneMinus(fracs[1])>>
    ELSE fracs

\* (a + frac * (b - a)) / 16.0
UvNorm(a, b, frac) == <<a * frac[2] + frac[1] * (b - a), 16 * frac[2]>>

DEFAULT_UV == <<0, 0, 16, 16>>

\* the colour a face gives a cell, or None: the first element covering the
\* face decides, and a face without a loadable texture gives nothing
FaceColor(files, elements, cell, face) ==
    LET covering == {n \in DOMAIN elements : CoversFace(elements[n], cell, face)}
    IN IF covering = {} THEN NoColor
       ELSE LET elem == elements[Min(covering)]
                face_data == elem.faces[face]
                tex_file == Get(face_data, "texture_file", "None")
                img == load_texture(files, tex_file)
                uv == Get(face_data, "uv", DEFAULT_UV)
                fracs == RotateFracs(FaceFracs(elem, cell, face),
                                     Get(face_data, "rotation", 0))
            IN IF tex_file = "None" \/ img.kind = "None" THEN NoColor
               ELSE sample_texture(img, <<UvNorm(uv[1], uv[3], fracs[1]),
                                          UvNorm(uv[2], uv[4], fracs[2])>>)

\* the default gray of a cell no face colours
DEFAULT_GRAY == <<128, 128, 128, 255>>

\* the faces of a cell that are tried and give a colour, as indices of
\* face_order
ColouringFaces(files, elements, cells, N, cell) ==
    {n \in DOMAIN face_order :
        /\ ~NeighborFilled(cells, N, cell, face_order[n])
        /\ FaceColor(files, elements, cell, face_order[n]) # NoColor}

CellColor(files, elements, cells, N, cell) ==
    LET giving == ColouringFaces(files, elements, cells, N, cell)
    IN IF giving = {} THEN DEFAULT_GRAY
       ELSE FaceColor(files, elements, cell, face_order[Min(giving)])

\* voxelize_model: the filled cells with their colours, in the order the
\* loops over i, j and k store them
voxelize_model(files, elements) ==
    LET N == GridN(files, elements)
        cells == Filled(elements, N)
        order == SelectSeq(CubeSeq(N), LAMBDA c : c \in cells)
    IN [n \in DOMAIN order |->
           <<order[n], CellColor(files, elements, cells, N, order[n])>>]


(* A voxelization run over a family of models.                              *)

MaxElements == 2

\* the texture files at hand; missing.png is no file, broken.png does not
\* open as an image
TextureFiles ==
    [name \in {"c200.png", "up.png", "north.png", "south.png", "east.png",
               "west.png", "down.png", "checker.png", "clear.png", "wide.png",
               "broken.png"} |->
        IF name = "c200.png" THEN UniformImage(16, 16, <<200, 200, 200, 255>>)
        ELSE IF name = "up.png" THEN UniformImage(2, 2, <<1, 0, 0, 255>>)
        ELSE IF name = "north.png" THEN UniformImage(2, 2, <<2, 0, 0, 255>>)
        ELSE IF name = "south.png" THEN UniformImage(2, 2, <<3, 0, 0, 255>>)
        ELSE IF name = "east.png" THEN UniformImage(2, 2, <<4, 0, 0, 255>>)
        ELSE IF name = "west.png" THEN UniformImage(2, 2, <<5, 0, 0, 255>>)
        ELSE IF name = "down.png" THEN UniformImage(2, 2, <<6, 0, 0, 255>>)
        ELSE IF name = "checker.png"
        THEN [kind |-> "image", size |-> <<2, 2>>,
              pixels |-> [p \in (0..1) \X (0..1) |->
                             <<10 + p[1], 20 + p[2], 0, 255>>]]
        ELSE IF name = "clear.png" THEN UniformImage(4, 4, <<9, 9, 9, 0>>)
        ELSE IF name = "wide.png" THEN UniformImage(32, 1, <<7, 7, 7, 255>>)
        ELSE [kind |-> "corrupt"]]

\* faces that all reference one texture file
SameFaces(tex_file) == [f \in FaceNames |-> [texture_file |-> tex_file]]

\* faces that each reference a texture of their own colour
OwnFaces ==
    [f \in FaceNames |->
        [texture_file |-> IF f = "up" THEN "up.png"
                          ELSE IF f = "north" THEN "north.png"
                          ELSE IF f = "south" THEN "south.png"
                          ELSE IF f = "east" THEN "east.png"
                          ELSE IF f = "west" THEN "west.png"
                          ELSE "down.png"]]

\* an empty up face, a north face without a texture, a south face whose
\* texture is no file, an east face whose texture does not open, a west face
\* with a uv rectangle and a rotation, a plain down face
MixedFaces ==
    [f \in FaceNames |->
        IF f = "up" THEN <<>>
        ELSE IF f = "north" THEN [uv |-> <<0, 0, 16, 16>>]
        ELSE IF f = "south" THEN [texture_file |-> "missing.png"]
        ELSE IF f = "east" THEN [texture_file |-> "broken.png"]
        ELSE IF f = "west"
        THEN [texture_file |-> "checker.png", uv |-> <<0, 0, 8, 8>>,
              rotation |-> 90]
        ELSE [texture_file |-> "down.png"]]

FaceStyles ==
    {SameFaces("c200.png"), OwnFaces, MixedFaces, SameFaces("checker.png"),
     SameFaces("clear.png"), <<>>}

\* element bounds in half-cell units: cubes, a non-cubic box, a box with
\* bounds at cell centres, boxes reaching out of the grid
Boxes ==
    { <<<<0, 0, 0>>, <<4, 4, 4>>>>,
      <<<<4, 0, 0>>, <<8, 4, 4>>>>,
      <<<<0, 4, 0>>, <<4, 8, 4>>>>,
      <<<<0, 0, 0>>, <<6, 6, 6>>>>,
      <<<<0, 0, 0>>, <<8, 4, 4>>>>,
      <<<<12, 0, 14>>, <<20, 4, 18>>>>,
      <<<<1, 1, 1>>, <<3, 5, 3>>>>,
      <<<<-2, 0, 30>>, <<2, 2, 34>>>>,
      <<<<28, 28, 28>>, <<32, 32, 32>>>> }

MkElement(box, faces) == [from |-> box[1], to |-> box[2], faces |-> faces]

WithRotation(elem, origin, axis, angle) ==
    [from |-> elem.from, to |-> elem.to, faces |-> elem.faces,
     rotation |-> [origin |-> origin, axis |-> axis, angle |-> angle]]

\* the centre of an element whose extents are whole even numbers of cells
CentreOf(elem) ==
    [a \in 1..3 |-> (elem.from[a] + elem.to[a]) \div 2]

PlainElements == {MkElement(b, fs) : b \in Boxes, fs \in FaceStyles}

\* rotations by multiples of 90 degrees about axes through whole-cell points
RotatedElements ==
    {WithRotation(MkElement(b, OwnFaces), o, axis, angle) :
        <<b, o>> \in {<<b, o>> \in Boxes \X {<<0, 0, 0>>, <<4, 2, 2>>, <<2, 2, 2>>,
                                               <<16, 2, 16>>} :
                         \A a \in 1..3 : b[1][a] % 2 = 0 /\ b[2][a] % 2 = 0},
        axis \in {"x", "y", "z"}, angle \in {90, 180, 270, -90, 0}}

\* the elements that models of several elements are made of
StackElements ==
    {MkElement(b, fs) :
        b \in { <<<<0, 0, 0>>, <<4, 4, 4>>>>, <<<<4, 0, 0>>, <<8, 4, 4>>>>,
                <<<<0, 4, 0>>, <<4, 8, 4>>>>, <<<<1, 1, 1>>, <<3, 5, 3>>>> },
        fs \in {OwnFaces, MixedFaces}}

ModelFamily ==
    {<<e>> : e \in PlainElements \cup RotatedElements}
    \cup (SeqsUpTo(StackElements, MaxElements) \ {<<>>})
    \cup {<<>>,
          <<MkElement(<<<<0, 0, 0>>, <<4, 4, 4>>>>, SameFaces("wide.png"))>>}

InitVox ==
    /\ resolved_elements \in ModelFamily
    /\ grid_filled = {}
    /\ grid_colors = <<>>
    /\ op = "voxelize"
    /\ parts = <<>>
    /\ parts0 = <<>>
    /\ chunks = <<>>
    /\ maxVoxels = 0
    /\ NoRun
    /\ NoFiles
    /\ NoCli
    /\ NoLib

\* voxelize_model(resolved_elements, texture_cache)
Voxelize ==
    /\ op = "voxelize"
    /\ grid_filled' = Filled(resolved_elements,
                             GridN(TextureFiles, resolved_elements))
    /\ grid_colors' = voxelize_model(TextureFiles, resolved_elements)
    /\ op' = "voxelized"
    /\ UNCHANGED <<parts, parts0, chunks, maxVoxels, resolved_elements>>
    /\ UNCHANGED runVars
    /\ UNCHANGED fileVars
    /\ UNCHANGED cliVars
    /\ UNCHANGED libVars
    /\ UNCHANGED resolver_calls

NextVox == Voxelize

SpecVox == InitVox /\ [][NextVox]_vars


\* no element of the model declares a rotation
NoRotation == \A n \in DOMAIN resolved_elements :
                 "rotation" \notin DOMAIN resolved_elements[n]

\* the centre of the cell lies in [from, to) of the element
CentreInside(elem, cell) ==
    \A a \in 1..3 : elem.from[a] <= 2 * cell[a] + 1 /\ 2 * cell[a] + 1 < elem.to[a]

\* C14: without rotation a cell of the grid is occupied exactly when its
\* centre lies in the half-open bounds [from, to) of at least one element
\* (the union over the elements); one element from (0,0,0) to (2,2,2) in
\* the 16^3 grid occupies exactly the 8 cells of [0,2)^3.
C14_Occupancy ==
    (op = "voxelized" /\ NoRotation) =>
        /\ grid_filled =
              {cell \in Cube(GridN(TextureFiles, resolved_elements)) :
                  \E n \in DOMAIN resolved_elements :
                      CentreInside(resolved_elements[n], cell)}
        /\ ( /\ Len(resolved_elements) = 1
             /\ resolved_elements[1].from = <<0, 0, 0>>
             /\ resolved_elements[1].to = <<4, 4, 4>>
             /\ GridN(TextureFiles, resolved_elements) = 16 )
           => grid_filled = Cube(2)

\* two unrotated elements, one with bounds at cell centres, both adding cells
C14_Witness ==
    /\ op = "voxelized"
    /\ NoRotation
    /\ Len(resolved_elements) = 2
    /\ resolved_elements[1].from = <<1, 1, 1>>
    /\ resolved_elements[2].from = <<4, 0, 0>>
    /\ Cardinality(grid_filled) = 10
    /\ {<<0, 1, 0>>, <<3, 0, 0>>} \subseteq grid_filled


\* the model is one element that declares a rotation
OneRotated ==
    /\ Len(resolved_elements) = 1
    /\ "rotation" \in DOMAIN resolved_elements[1]

\* the rotation is a quarter turn about the vertical axis through the centre
\* of the element, and the turned bounds lie on cell borders
QuarterTurnAboutCentre(elem) ==
    /\ elem.rotation.axis = "y"
    /\ elem.rotation.angle % 180 = 90
    /\ \A a \in 1..3 : 2 * elem.rotation.origin[a] = elem.from[a] + elem.to[a]
    /\ (elem.to[1] - elem.from[1]) % 4 = (elem.to[3] - elem.from[3]) % 4

\* the bounds of the element with its two horizontal extents exchanged
\* about its centre
Exchanged(elem) ==
    LET o == elem.rotation.origin
        hx == (elem.to[1] - elem.from[1]) \div 2
        hz == (elem.to[3] - elem.from[3]) \div 2
    IN [from |-> <<o[1] - hz, elem.from[2], o[3] - hx>>,
        to |-> <<o[1] + hz, elem.to[2], o[3] + hx>>]

\* C15: for an element that declares a rotation, every cell of the N^3 grid
\* is occupied exactly when its centre, rotated back about the declared
\* origin and axis, lies in [from, to); a quarter turn of an element about
\* the vertical axis through its centre occupies the cells of the element
\* with its horizontal extents exchanged, clipped to the grid.
C15_RotatedOccupancy ==
    (op = "voxelized" /\ OneRotated) =>
        LET elem == resolved_elements[1]
            N == GridN(TextureFiles, resolved_elements)
        IN /\ grid_filled =
                 {cell \in Cube(N) :
                     \A a \in 1..3 :
                         /\ elem.from[a] <= LocalPoint(elem, cell)[a]
                         /\ LocalPoint(elem, cell)[a] < elem.to[a]}
           /\ QuarterTurnAboutCentre(elem) =>
                 grid_filled =
                     {cell \in Cube(N) : CentreInside(Exchanged(elem), cell)}


\* the colour of the texture that only the faces named f reference
OwnColor(f) == TextureFiles[OwnFaces[f].texture_file].pixels[<<0, 0>>]

\* the cell next to a cell on the side of a face
NeighborOn(cell, f) ==
    <<cell[1] + FaceDelta(f)[1], cell[2] + FaceDelta(f)[2],
      cell[3] + FaceDelta(f)[3]>>

\* C16: a face is never used to colour a cell whose neighbour on that side
\* is occupied, so the face two adjacent occupied cells share colours
\* neither; a side whose neighbour lies outside the grid counts as exposed:
\* a cell of the top layer of the grid takes the colour of the up face of
\* the element that ends there, and a cell of the first north layer whose
\* up side is hidden takes the colour of the north face.
C16_FaceVisibility ==
    op = "voxelized" =>
        \A n \in DOMAIN grid_colors :
            LET cell == grid_colors[n][1]
                color == grid_colors[n][2]
                N == GridN(TextureFiles, resolved_elements)
            IN /\ \A f \in FaceNames :
                      color = OwnColor(f) => NeighborOn(cell, f) \notin grid_filled
               /\ ( /\ Len(resolved_elements) = 1
                    /\ "rotation" \notin DOMAIN resolved_elements[1]
                    /\ resolved_elements[1].faces = OwnFaces )
                  => /\ (cell[2] = N - 1 /\ resolved_elements[1].to[2] = 2 * N)
                        => color = OwnColor("up")
                     /\ ( /\ cell[3] = 0
                          /\ resolved_elements[1].from[3] = 0
                          /\ NeighborOn(cell, "up") \in grid_filled )
                        => color = OwnColor("north")

\* two elements stacked: the up face of the lower one is hidden, so the
\* cell under the upper element takes the colour of its north face
C16_Witness ==
    /\ op = "voxelized"
    /\ Len(resolved_elements) = 2
    /\ resolved_elements[1] = MkElement(<<<<0, 0, 0>>, <<4, 4, 4>>>>, OwnFaces)
    /\ resolved_elements[2] = MkElement(<<<<0, 4, 0>>, <<4, 8, 4>>>>, OwnFaces)
    /\ <<0, 2, 0>> \in grid_filled
    /\ \E n \in DOMAIN grid_colors :
          grid_colors[n] = <<<<0, 1, 0>>, OwnColor("north")>>


\* the image is fully opaque and of one colour
UniformOpaque(img) ==
    /\ img.kind = "image"
    /\ \A p \in DOMAIN img.pixels : img.pixels[p] = img.pixels[<<0, 0>>]
    /\ img.pixels[<<0, 0>>][4] = 255

\* the model is one unrotated element with whole-cell bounds inside the
\* 16^3 grid whose six faces reference one loadable image
OneTexturedBox ==
    /\ Len(resolved_elements) = 1
    /\ "rotation" \notin DOMAIN resolved_elements[1]
    /\ \A a \in 1..3 :
          /\ resolved_elements[1].from[a] % 2 = 0
          /\ resolved_elements[1].to[a] % 2 = 0
          /\ 0 <= resolved_elements[1].from[a]
          /\ resolved_elements[1].from[a] < resolved_elements[1].to[a]
          /\ resolved_elements[1].to[a] <= 32
    /\ DOMAIN resolved_elements[1].faces = FaceNames
    /\ \A f \in FaceNames :
          /\ DOMAIN resolved_elements[1].faces[f] = {"texture_file"}
          /\ resolved_elements[1].faces[f].texture_file
                = resolved_elements[1].faces["up"].texture_file
    /\ resolved_elements[1].faces["up"].texture_file \in DOMAIN TextureFiles
    /\ GridN(TextureFiles, resolved_elements) = 16

\* C17: for one unrotated element with whole-cell bounds in the 16^3 grid
\* whose six faces reference a loadable, fully opaque texture of one colour
\* C, the keys of the voxel grid are exactly the cells with centres in the
\* bounds, and every such cell with an exposed side has colour C, alpha 255;
\* from (0,0,0) to (2,2,2) with C = (200,200,200) gives 8 voxels, all
\* (200,200,200,255).
C17_UniformColour ==
    (op = "voxelized" /\ OneTexturedBox
        /\ UniformOpaque(TextureFiles[resolved_elements[1].faces["up"].texture_file])) =>
        LET elem == resolved_elements[1]
            C == TextureFiles[elem.faces["up"].texture_file].pixels[<<0, 0>>]
        IN /\ {grid_colors[n][1] : n \in DOMAIN grid_colors}
                 = {cell \in Cube(16) : CentreInside(elem, cell)}
           /\ Len(grid_colors)
                 = Cardinality({cell \in Cube(16) : CentreInside(elem, cell)})
           /\ \A n \in DOMAIN grid_colors :
                 (\E f \in FaceNames :
                     NeighborOn(grid_colors[n][1], f) \notin grid_filled)
                 => grid_colors[n][2] = C
           /\ (elem.from = <<0, 0, 0>> /\ elem.to = <<4, 4, 4>>
                  /\ C = <<200, 200, 200, 255>>)
              => /\ Len(grid_colors) = 8
                 /\ \A n \in DOMAIN grid_colors :
                       grid_colors[n][2] = <<200, 200, 200, 255>>

\* the 2x2x2 element with the uniform texture (200,200,200), voxelized
C17_Witness ==
    /\ op = "voxelized"
    /\ resolved_elements
          = <<MkElement(<<<<0, 0, 0>>, <<4, 4, 4>>>>, SameFaces("c200.png"))>>
    /\ Len(grid_colors) = 8
    /\ grid_colors[1] = <<<<0, 0, 0>>, <<200, 200, 200, 255>>>>


-----------------------------------------------------------------------------
(* The fallback of assemble_blueprint for a block without a unit blueprint. *)

\* the resolver returned no unit blueprint for the name
Unresolved(block_name) ==
    /\ block_name \in DOMAIN blueprint_cache
    /\ blueprint_cache[block_name] = <<>>

\* C18: a block whose name resolves to no unit blueprint adds exactly one
\* 1x1x1 voxel of colour 808080 at (16*bx, 16*bz, 16*by) and its name is in
\* the set of missing blueprints; the loop raises nothing and goes on: every
\* block processed so far has left its parts, the unresolvable ones their
\* cube, and the passes start only after the last block.
C18_FallbackCube ==
    /\ (pc = "place" /\ idx >= 1 /\ Unresolved(LastBlock.name)) =>
          /\ Len(LastPlaced) = 1
          /\ LastPlaced[1].bounds = <<1, 1, 1>>
          /\ LastPlaced[1].color = <<"8", "0", "8", "0", "8", "0">>
          /\ LastPlaced[1].pos
                = <<16 * LastBlock.x, 16 * LastBlock.z, 16 * LastBlock.y>>
          /\ LastBlock.name \in missing
    /\ pc = "place" =>
          /\ Len(parts) >= idx
          /\ \A n \in 1..idx :
                Unresolved(blocks[n].name) =>
                   \E m \in DOMAIN parts :
                      /\ parts[m].color = <<"8", "0", "8", "0", "8", "0">>
                      /\ parts[m].pos = <<16 * blocks[n].x, 16 * blocks[n].z,
                                          16 * blocks[n].y>>
    /\ pc # "place" => idx = Len(blocks)

\* an unresolvable block was given its gray cube and the block after it,
\* which has a unit blueprint, was placed as well
C18_Witness ==
    /\ pc = "place"
    /\ idx = 2
    /\ blocks[1].name = sDIRT
    /\ blocks[2].name = sSTONE
    /\ missing = {sDIRT}
    /\ parts[1].color = <<"8", "0", "8", "0", "8", "0">>
    /\ Len(parts) > 2


-----------------------------------------------------------------------------
(* The converter's command line: schematic_to_json.main.  The stream is    *)
(* what gzip hands to the decoder; a file that is no gzip stream raises in *)
(* the same try block as a decoding error.                                 *)

\* the modules schematic_to_json.py imports
ModuleImports == {"argparse", "gzip", "json", "pathlib", "struct", "sys"}

\* evaluating a module-level name: NameError unless it was imported
NameLookup(module) == IF module \in ModuleImports THEN "" ELSE "NameError"

AbsentFile == [state |-> "absent"]

\* what json.dump and flush left in the output file
WrittenFile(root_name, root_payload) ==
    [state |-> "written",
     json_obj |-> PyDict(<<[name |-> root_name, value |-> root_payload]>>)]

InitMain ==
    /\ \/ /\ in_is_file = TRUE
          /\ tree \in Trees
          /\ stream = Encode(RootName, tree)
          /\ damage = "none"
       \/ /\ in_is_file = FALSE
          /\ tree = [kind |-> "none"]
          /\ stream = <<>>
          /\ damage = "missing"
    /\ out_file = AbsentFile
    /\ exit_code = "unset"
    /\ nbt = [err |-> "unread"]
    /\ schematic = [format |-> "none"]
    /\ parsed = [status |-> "unread"]
    /\ parts = <<>>
    /\ parts0 = <<>>
    /\ op = "decode"
    /\ chunks = <<>>
    /\ maxVoxels = 0
    /\ NoRun
    /\ NoModel
    /\ NoLib

\* the root tag of the file is of another known type
NonCompoundRoot ==
    /\ op = "decode"
    /\ damage = "none"
    /\ nbt.err = "unread"
    /\ \E t \in {TAG_End, TAG_Byte, TAG_String} :
          stream' = [stream EXCEPT ![1] = t]
    /\ damage' = "root"
    /\ UNCHANGED <<tree, nbt, schematic, parsed>>
    /\ UNCHANGED passVars
    /\ UNCHANGED runVars
    /\ UNCHANGED voxVars
    /\ UNCHANGED cliVars
    /\ UNCHANGED libVars
    /\ UNCHANGED resolver_calls

\* main(argv): 1 for a missing input, 1 for any exception of the decoder;
\* else the JSON is dumped and flushed, os.fsync is looked up, and 0 returned
Main ==
    /\ op = "decode"
    /\ exit_code = "unset"
    /\ nbt.err = "unread"
    /\ IF ~in_is_file
       THEN /\ exit_code' = "return 1"
            /\ UNCHANGED <<nbt, out_file>>
       ELSE LET r == read_nbt_from_gzipped_file(stream)
            IN /\ nbt' = r
               /\ IF r.err # ""
                  THEN /\ exit_code' = "return 1"
                       /\ UNCHANGED out_file
                  ELSE /\ out_file' = WrittenFile(r.name, r.payload)
                       /\ exit_code' = IF NameLookup("os") = ""
                                       THEN "return 0"
                                       ELSE "raise NameError"
    /\ UNCHANGED <<stream, tree, damage, schematic, parsed, in_is_file>>
    /\ UNCHANGED passVars
    /\ UNCHANGED runVars
    /\ UNCHANGED voxVars
    /\ UNCHANGED libVars
    /\ UNCHANGED resolver_calls

NextMain == Truncate \/ UnknownType \/ NonCompoundRoot \/ Main

SpecMain == InitMain /\ [][NextMain]_vars

\* C19: main returns 0 when the input is an existing stream whose root is a
\* well-formed named compound, and the JSON has then been written; it
\* returns a non-zero code when the input path does not exist and when
\* decoding fails (truncated stream, unknown tag type, non-compound root).
C19_ExitCode ==
    exit_code # "unset" =>
        /\ (in_is_file /\ damage = "none") =>
              (exit_code = "return 0" /\ out_file.state = "written")
        /\ (\/ damage \in {"missing", "truncated", "root"}
            \/ (damage = "badtype" /\ nbt.err # "")) =>
              exit_code = "return 1"

\* what main does on its failure paths, and where it ends on the success
\* path: the lookup of os fails after the JSON was written
ExitCodeAsCoded ==
    exit_code # "unset" =>
        /\ (\/ damage \in {"missing", "truncated", "root"}
            \/ (damage = "badtype" /\ nbt.err # "")) =>
              (exit_code = "return 1" /\ out_file = AbsentFile)
        /\ (in_is_file /\ nbt.err = "") =>
              (exit_code = "raise NameError" /\ out_file.state = "written")


-----------------------------------------------------------------------------
(* From a palette schematic to the written blueprint: main of              *)
(* schematic_assembler.py parses the schematic and hands the result to     *)
(* assemble_blueprint.                                                      *)

\* 'minecraft:oak_stairs[facing='
sSTAIRS_FACING == SubSeq(sMINECRAFT_OAK_STAIRS, 1, 28)

sEAST == <<"e", "a", "s", "t">>
sWEST == <<"w", "e", "s", "t">>
sSOUTH == <<"s", "o", "u", "t", "h">>
sNORTH == <<"n", "o", "r", "t", "h">>
sTOP == <<"t", "o", "p">>
sBOTTOM == <<"b", "o", "t", "t", "o", "m">>

\* 'minecraft:oak_stairs[facing=<facing>,half=<half>]'
StairsState(facing, half) ==
    sSTAIRS_FACING \o facing \o <<",", "h", "a", "l", "f", "=">> \o half
        \o <<"]">>

\* a palette with stairs of every facing, and one upside down
StairsPalette ==
    <<[state |-> sMINECRAFT_AIR, id |-> 0],
      [state |-> sMINECRAFT_STONE, id |-> 1],
      [state |-> StairsState(sEAST, sBOTTOM), id |-> 2],
      [state |-> StairsState(sWEST, sBOTTOM), id |-> 3],
      [state |-> StairsState(sSOUTH, sBOTTOM), id |-> 4],
      [state |-> StairsState(sNORTH, sBOTTOM), id |-> 5],
      [state |-> StairsState(sEAST, sTOP), id |-> 6]>>

\* a row of MaxDim cells of a palette schematic
InitPipe ==
    /\ \E data \in [1..MaxDim -> 0..6] :
          schematic = [wrapper |-> "Schematic", format |-> "palette",
                       Width |-> MaxDim, Height |-> 1, Length |-> 1,
                       Palette |-> StairsPalette, Data |-> data]
    /\ \E g \in BOOLEAN :
          flags = [hollow |-> FALSE, split_chunks |-> FALSE,
                   generate_on_demand |-> g]
    /\ parsed = [status |-> "unread"]
    /\ stream = <<>>
    /\ tree = [kind |-> "none"]
    /\ damage = "none"
    /\ nbt = [err |-> "unread"]
    /\ parts = <<>>
    /\ parts0 = <<>>
    /\ op = "parse"
    /\ chunks = <<>>
    /\ maxVoxels = 0
    /\ blocks = <<>>
    /\ idx = 0
    /\ blueprint_cache = <<>>
    /\ missing = {}
    /\ pc = "idle"
    /\ written = <<>>
    /\ NoModel
    /\ NoCli
    /\ NoLib

\* main: the parsed schematic is handed to assemble_blueprint
Assemble ==
    /\ op = "parse"
    /\ parsed.status = "ok"
    /\ pc = "idle"
    /\ blocks' = parsed.blocks
    /\ pc' = "place"
    /\ UNCHANGED <<idx, blueprint_cache, missing, flags, written>>
    /\ UNCHANGED passVars
    /\ UNCHANGED fileVars
    /\ UNCHANGED voxVars
    /\ UNCHANGED cliVars
    /\ UNCHANGED libVars
    /\ UNCHANGED resolver_calls

NextPipe == Parse \/ Assemble \/ NextAsm

SpecPipe == InitPipe /\ [][NextPipe]_vars

\* the orientation pairs on the parts of the first block and of the block
\* placed last
PairOfFirst == <<parts[1].xaxis, parts[1].zaxis>>

PairOfLast == <<LastPlaced[1].xaxis, LastPlaced[1].zaxis>>

\* the first block and the block placed last are palette-encoded stairs
TwoPaletteStairs ==
    /\ pc = "place"
    /\ idx >= 2
    /\ \A n \in {1, idx} :
          /\ "properties" \in DOMAIN blocks[n]
          /\ Contains(Lower(blocks[n].name), sSTAIRS)

\* C20: the orientation pair of a palette-encoded directional block is
\* derived from its properties as the pair of a legacy block is from its
\* data value: stairs with the same properties get the same pair, and
\* stairs that differ in facing or half get different pairs.
C20_PaletteOrientation ==
    TwoPaletteStairs =>
        (blocks[1].properties = blocks[idx].properties) = (PairOfFirst = PairOfLast)

\* what the code does: a palette block has data 0, so every palette-encoded
\* stairs block gets the pair of data value 0, (1, 3)
PaletteOrientationAsCoded ==
    TwoPaletteStairs =>
        /\ blocks[1].data = 0
        /\ PairOfFirst = <<1, 3>>
        /\ PairOfLast = <<1, 3>>


-----------------------------------------------------------------------------
(* The sense of an element's rotation.                                      *)

\* the right-handed rotation of the vector v by the angle about the positive
\* axis, for multiples of 90 degrees
RightHanded(axis, angle, v) ==
    LET s == SinDeg(angle)
        c == CosDeg(angle)
    IN IF axis = "x" THEN <<v[1], v[2] * c - v[3] * s, v[2] * s + v[3] * c>>
       ELSE IF axis = "y" THEN <<v[1] * c + v[3] * s, v[2], -v[1] * s + v[3] * c>>
       ELSE <<v[1] * c - v[2] * s, v[1] * s + v[2] * c, v[3]>>

\* the centre of a cell turned about the origin of the element's rotation
\* by the right-handed rotation of the given angle
TurnedCentre(elem, cell, angle) ==
    LET o == elem.rotation.origin
        c == CellCentre(cell)
        r == RightHanded(elem.rotation.axis, angle,
                         <<c[1] - o[1], c[2] - o[2], c[3] - o[3]>>)
    IN <<r[1] + o[1], r[2] + o[2], r[3] + o[3]>>

\* the cells the loops of voxelize_model try for an element
TriedCells(elem, N) ==
    IndexRange(elem.from[1], elem.to[1], N)
        \X IndexRange(elem.from[2], elem.to[2], N)
        \X IndexRange(elem.from[3], elem.to[3], N)

\* the point p lies in the half-open box [from, to) of the element
PointInside(elem, p) ==
    \A a \in 1..3 : elem.from[a] <= p[a] /\ p[a] < elem.to[a]

\* the model is one element turned by +90, -90 or 180 degrees (270 is -90)
OneTurned ==
    /\ OneRotated
    /\ resolved_elements[1].rotation.angle \in {90, -90, 180, 270}

\* C21: for each axis the transform applied to a cell centre before the
\* bounds test is the inverse of the right-handed rotation by the declared
\* angle about the positive axis through the declared origin, that is the
\* right-handed rotation by minus the angle: a tried cell is occupied
\* exactly when its centre turned that way lies in [from, to).
C21_RotationSense ==
    (op = "voxelized" /\ OneTurned) =>
        LET elem == resolved_elements[1]
        IN \A cell \in TriedCells(elem, GridN(TextureFiles, resolved_elements)) :
              (cell \in grid_filled)
                  = PointInside(elem, TurnedCentre(elem, cell, -elem.rotation.angle))

\* what the code does: about x it applies the right-handed rotation by
\* minus the angle, about y and z the right-handed rotation by the angle
RotationSenseAsCoded ==
    (op = "voxelized" /\ OneTurned) =>
        LET elem == resolved_elements[1]
            angle == IF elem.rotation.axis = "x" THEN -elem.rotation.angle
                     ELSE elem.rotation.angle
        IN \A cell \in TriedCells(elem, GridN(TextureFiles, resolved_elements)) :
              (cell \in grid_filled)
                  = PointInside(elem, TurnedCentre(elem, cell, angle))


-----------------------------------------------------------------------------
(* The colour of an occupied cell.                                          *)

\* the elements whose bounds contain the centre of the cell and whose face
\* declares a texture that loads
TexturedOn(cell, f) ==
    {e \in Range(resolved_elements) :
        /\ PointInside(e, CellCentre(cell))
        /\ f \in DOMAIN e.faces
        /\ "texture_file" \in DOMAIN e.faces[f]
        /\ load_texture(TextureFiles, e.faces[f].texture_file).kind = "image"}

\* the face qualifies for the cell: the side has no occupied neighbour and
\* some element around the cell centre has a loadable texture for the face
Qualifies(cell, f) ==
    /\ NeighborOn(cell, f) \notin grid_filled
    /\ TexturedOn(cell, f) # {}

\* the colours a sample of the face's texture can have
FaceSamples(cell, f) ==
    UNION {Range(load_texture(TextureFiles, e.faces[f].texture_file).pixels) :
              e \in TexturedOn(cell, f)}

\* every occupied cell has exactly one colour and no other cell has one
OneColourEach ==
    op = "voxelized" =>
        /\ {grid_colors[n][1] : n \in DOMAIN grid_colors} = grid_filled
        /\ Len(grid_colors) = Cardinality(grid_filled)

\* C22: the colour of an occupied cell is a sample of the texture of the
\* first face, in the order up, north, south, east, west, down, whose side
\* has no occupied neighbour and for which some element around the cell
\* centre declares a loadable texture; the opaque gray is assigned only when
\* no face qualifies; every occupied cell gets exactly one colour and no
\* unoccupied cell gets one.
C22_ColourResolution ==
    op = "voxelized" =>
        /\ OneColourEach
        /\ \A n \in DOMAIN grid_colors :
              LET cell == grid_colors[n][1]
                  color == grid_colors[n][2]
                  q == {m \in DOMAIN face_order : Qualifies(cell, face_order[m])}
              IN IF q = {} THEN color = DEFAULT_GRAY
                 ELSE color \in FaceSamples(cell, face_order[Min(q)])


-----------------------------------------------------------------------------
(* The geometry of the chunks of a split.                                   *)

\* C23: in a split with chunk edges (cx,cy,cz) and bounding-box minimum
\* (mx,my,mz), a voxel at (x,y,z) lies in the chunk whose chunk_index is
\* ((x-mx) div cx, (y-my) div cy, (z-mz) div cz): the voxels of a chunk lie
\* in one axis-aligned box of edges (cx,cy,cz), the boxes of different
\* chunks do not overlap, every chunk index lies inside the chunk grid, and
\* the voxel_count of a chunk is the number of parts it holds.
C23_ChunkGeometry ==
    op = "split" =>
        LET c == ChunkSize(parts0, maxVoxels)
            m == BoundingMin(parts0)
            grid == ChunkGrid(parts0, c)
            lo(n) == [a \in 1..3 |-> m[a] + chunks[n].chunk_index[a] * c[a]]
        IN /\ \A n \in DOMAIN chunks :
                 /\ \A p \in Range(chunks[n].blueprint) : \A a \in 1..3 :
                        /\ chunks[n].chunk_index[a] = (p.pos[a] - m[a]) \div c[a]
                        /\ lo(n)[a] <= p.pos[a]
                        /\ p.pos[a] < lo(n)[a] + c[a]
                 /\ \A a \in 1..3 : /\ 0 <= chunks[n].chunk_index[a]
                                    /\ chunks[n].chunk_index[a] < grid[a]
                 /\ chunks[n].voxel_count = Len(chunks[n].blueprint)
           /\ \A n1, n2 \in DOMAIN chunks :
                 n1 # n2 =>
                     \E a \in 1..3 : \/ lo(n1)[a] + c[a] <= lo(n2)[a]
                                     \/ lo(n2)[a] + c[a] <= lo(n1)[a]

\* a split of a structure away from the origin into several chunks, one of
\* them with several parts
C23_Witness ==
    /\ op = "split"
    /\ BoundingMin(parts0) # <<0, 0, 0>>
    /\ Len(chunks) >= 2
    /\ \E n \in DOMAIN chunks : chunks[n].voxel_count >= 2


-----------------------------------------------------------------------------
(* rotate_position on its own: calls on positions of a small cube with     *)
(* every pair of axis codes, each call on the result of the one before.    *)

MaxTurnCoord == 2

TurnCube ==
    (-MaxTurnCoord..MaxTurnCoord) \X (-MaxTurnCoord..MaxTurnCoord)
        \X (-MaxTurnCoord..MaxTurnCoord)

\* the axis codes a caller may pass, 0 among them
TurnCodes == AxisCodes \cup {0}

InitTurn ==
    /\ \E p \in TurnCube : rotation_call = [result |-> p]
    /\ resolver_calls = <<>>
    /\ texture_cache = <<>>
    /\ texture_disk = <<>>
    /\ texture_loads = <<>>
    /\ raw_model = [kind |-> "none"]
    /\ resolved_model = [kind |-> "none"]
    /\ parts = <<>>
    /\ parts0 = <<>>
    /\ op = "turn"
    /\ chunks = <<>>
    /\ maxVoxels = 0
    /\ NoRun
    /\ NoFiles
    /\ NoModel
    /\ NoCli

\* a call of rotate_position on the position the last call returned
RotatePosition ==
    /\ \E xaxis, zaxis \in TurnCodes :
          rotation_call' =
              [pos |-> rotation_call.result, xaxis |-> xaxis, zaxis |-> zaxis,
               result |-> rotate_position(rotation_call.result, xaxis, zaxis)]
    /\ UNCHANGED <<resolver_calls, texture_cache, texture_disk, texture_loads,
                   raw_model, resolved_model>>
    /\ UNCHANGED passVars
    /\ UNCHANGED runVars
    /\ UNCHANGED fileVars
    /\ UNCHANGED voxVars
    /\ UNCHANGED cliVars

NextTurn == RotatePosition

SpecTurn == InitTurn /\ [][NextTurn]_vars

\* the orientation pairs rotate_position turns by
TurnPairs == {<<1, 3>>, <<-1, 3>>, <<3, 1>>, <<-3, 1>>}

\* C24: in rotate_position the pair (1,3) is the identity, (-1,3) is its own
\* inverse, (3,1) and (-3,1) undo each other, (3,1) twice and (-3,1) twice
\* equal (-1,3), all four leave y unchanged, and every other pair returns
\* the position as it was.
C24_ExactTurns ==
    "pos" \in DOMAIN rotation_call =>
        LET p == rotation_call.pos
            a == <<rotation_call.xaxis, rotation_call.zaxis>>
            r == rotation_call.result
        IN /\ a = <<1, 3>> => r = p
           /\ a = <<-1, 3>> => rotate_position(r, -1, 3) = p
           /\ a = <<3, 1>> => /\ rotate_position(r, -3, 1) = p
                              /\ rotate_position(r, 3, 1)
                                    = rotate_position(p, -1, 3)
           /\ a = <<-3, 1>> => /\ rotate_position(r, 3, 1) = p
                               /\ rotate_position(r, -3, 1)
                                     = rotate_position(p, -1, 3)
           /\ a \in TurnPairs => r[2] = p[2]
           /\ a \notin TurnPairs => r = p
           /\ r \in TurnCube

\* a quarter turn of a position off the axis
C24_Witness ==
    /\ "pos" \in DOMAIN rotation_call
    /\ rotation_call.pos = <<1, 1, 2>>
    /\ rotation_call.xaxis = 3
    /\ rotation_call.zaxis = 1
    /\ rotation_call.result = <<2, 1, -1>>


-----------------------------------------------------------------------------
(* The order of the passes in a run of assemble_blueprint.                  *)

\* no two parts of the list share a coordinate
NoTwoShare(ps) ==
    \A i, j \in DOMAIN ps : i # j => ps[i].pos # ps[j].pos

RECURSIVE Concat(_, _)
\* the lists of ss from the n-th on, one after the other
Concat(ss, n) ==
    IF n > Len(ss) THEN <<>> ELSE ss[n] \o Concat(ss, n + 1)

\* what a step of the run may do, by the place the run stands at; from the
\* hollowing step on parts0 holds the deduplicated list
PipelineStep ==
    /\ idx' # idx => pc = "place" /\ pc' = "place"
    /\ pc \in {"place", "hollow", "split"} => written = <<>>
    /\ pc \in {"place", "hollow"} => chunks = <<>>
    /\ (pc = "place" /\ pc' # "place") =>
          /\ idx = Len(blocks)
          /\ pc' = "hollow"
          /\ NoTwoShare(parts')
          /\ Range(parts') \subseteq Range(parts)
    /\ pc = "hollow" =>
          /\ pc' \in {"split", "error"}
          /\ parts0' = parts
          /\ Range(parts') \subseteq Range(parts)
          /\ ~flags.hollow => parts' = parts
          /\ chunks' = <<>>
    /\ pc = "split" =>
          /\ pc' \in {"write", "error"}
          /\ UNCHANGED <<parts, parts0>>
          /\ pc' = "write" =>
                Range(Concat([n \in DOMAIN chunks' |-> chunks'[n].blueprint], 1))
                    \subseteq Range(parts)
    /\ pc = "write" =>
          /\ pc' = "done"
          /\ UNCHANGED <<parts, parts0>>
          /\ NoTwoShare(Concat(written', 1))
          /\ Range(Concat(written', 1)) \subseteq Range(parts0)

\* C25: in every run of assemble_blueprint deduplication runs after all
\* blocks have been placed and before hollowing, hollowing before chunk
\* splitting, and splitting before writing; over all structures one run
\* writes no two parts share a coordinate and every written part was in the
\* list deduplication returned.
C25_PipelineOrder == [][PipelineStep]_vars

\* a run that placed two blocks whose voxels collide, hollowed, split and
\* wrote several structures
C25_Witness ==
    /\ pc = "done"
    /\ flags.hollow
    /\ flags.split_chunks
    /\ Len(written) >= 2
    /\ Len(blocks) = 2


-----------------------------------------------------------------------------
(* The cache of unit blueprints in a run of assemble_blueprint.             *)

\* the blocks, among the first n, that are the first of their name
FirstOfName(n) ==
    {i \in 1..n : \A j \in 1..(i - 1) : blocks[j].name # blocks[i].name}

RECURSIVE PlacedWith(_, _)
\* the parts the first n blocks add when each is placed with the unit voxel
\* list that cache holds for its name
PlacedWith(cache, n) ==
    IF n = 0 THEN <<>>
    ELSE PlacedWith(cache, n - 1) \o PlaceVoxels(blocks[n], cache[blocks[n].name])

\* the state of the cache during the placement loop
CacheState ==
    pc = "place" =>
        /\ resolver_calls
              = [k \in 1..Cardinality(FirstOfName(idx)) |->
                    blocks[SortedSeq(FirstOfName(idx))[k]].name]
        /\ DOMAIN blueprint_cache = Range(resolver_calls)
        /\ parts = PlacedWith(blueprint_cache, idx)

\* a step of the run: the resolver is called only by a placement of a name
\* placed for the first time, and what the cache holds for a name stays
CacheStep ==
    /\ resolver_calls' # resolver_calls =>
          /\ idx' = idx + 1
          /\ resolver_calls' = Append(resolver_calls, blocks[idx'].name)
          /\ blocks[idx'].name \notin Range(resolver_calls)
    /\ \A name \in DOMAIN blueprint_cache :
          /\ name \in DOMAIN blueprint_cache'
          /\ blueprint_cache'[name] = blueprint_cache[name]

\* C26: within one run of assemble_blueprint the resolver
\* load_blueprint_blocks is called at most once per distinct block name, on
\* the first placement of that name, and every later placement of the name
\* uses the unit voxel list of that first call, the fallback cube included
\* when the first call found nothing.
C26_CacheOnce == [](CacheState) /\ [][CacheStep]_vars

\* two blocks of one name placed after a single call of the resolver
C26_Witness ==
    /\ pc = "place"
    /\ idx = 2
    /\ blocks[1].name = blocks[2].name
    /\ Len(resolver_calls) = 1
    /\ Len(parts) >= 2


-----------------------------------------------------------------------------
(* load_texture with its module-level cache, over texture files that are   *)
(* written, replaced and removed while the run goes on.                     *)

MaxLoads == 3

TexturePaths == {"a.png", "b.png"}

\* what a texture file can hold: one of two images, or bytes that are no image
TextureContents ==
    {UniformImage(1, 1, <<1, 2, 3, 255>>), UniformImage(1, 1, <<4, 5, 6, 255>>),
     [kind |-> "corrupt"]}

\* the disks over the texture paths: every path absent or with some content
TextureDisks ==
    UNION {[S -> TextureContents] : S \in SUBSET TexturePaths}

InitTex ==
    /\ texture_disk \in TextureDisks
    /\ texture_cache = <<>>
    /\ texture_loads = <<>>
    /\ resolver_calls = <<>>
    /\ rotation_call = [kind |-> "none"]
    /\ raw_model = [kind |-> "none"]
    /\ resolved_model = [kind |-> "none"]
    /\ parts = <<>>
    /\ parts0 = <<>>
    /\ op = "textures"
    /\ chunks = <<>>
    /\ maxVoxels = 0
    /\ NoRun
    /\ NoFiles
    /\ NoModel
    /\ NoCli

\* a load that reads the file every time and only then stores the result
LoadTextureUncached ==
    /\ Len(texture_loads) < MaxLoads
    /\ \E file_path \in TexturePaths :
          LET img == load_texture(texture_disk, file_path)
          IN /\ texture_cache' = (file_path :> img) @@ texture_cache
             /\ texture_loads' =
                    Append(texture_loads, [path |-> file_path, result |-> img])
    /\ UNCHANGED <<texture_disk, resolver_calls, rotation_call, raw_model,
                   resolved_model>>
    /\ UNCHANGED passVars
    /\ UNCHANGED runVars
    /\ UNCHANGED fileVars
    /\ UNCHANGED voxVars
    /\ UNCHANGED cliVars

\* load_texture(file_path): the cached value if the path is a key of the
\* cache, else what reading the file gives, stored under the path
LoadTexture ==
    /\ Len(texture_loads) < MaxLoads
    /\ \E file_path \in TexturePaths :
          LET cached == file_path \in DOMAIN texture_cache
              img == IF cached THEN texture_cache[file_path]
                     ELSE load_texture(texture_disk, file_path)
          IN /\ texture_cache' = IF cached THEN texture_cache
                                 ELSE (file_path :> img) @@ texture_cache
             /\ texture_loads' =
                    Append(texture_loads, [path |-> file_path, result |-> img])
    /\ UNCHANGED <<texture_disk, resolver_calls, rotation_call, raw_model,
                   resolved_model>>
    /\ UNCHANGED passVars
    /\ UNCHANGED runVars
    /\ UNCHANGED fileVars
    /\ UNCHANGED voxVars
    /\ UNCHANGED cliVars

\* between two loads a texture file is written, replaced or removed
ChangeFile ==
    /\ Len(texture_loads) < MaxLoads
    /\ \E file_path \in TexturePaths :
          \/ /\ file_path \in DOMAIN texture_disk
             /\ texture_disk' = [q \in DOMAIN texture_disk \ {file_path} |->
                                    texture_disk[q]]
          \/ \E content \in TextureContents :
                /\ ~(file_path \in DOMAIN texture_disk
                       /\ texture_disk[file_path] = content)
                /\ texture_disk' = (file_path :> content) @@ texture_disk
    /\ UNCHANGED <<texture_cache, texture_loads, resolver_calls, rotation_call,
                   raw_model, resolved_model>>
    /\ UNCHANGED passVars
    /\ UNCHANGED runVars
    /\ UNCHANGED fileVars
    /\ UNCHANGED voxVars
    /\ UNCHANGED cliVars

NextTex == LoadTexture \/ ChangeFile

SpecTex == InitTex /\ [][NextTex]_vars

\* C27: after the first load_texture of a path every later load_texture of
\* that path returns what the first one returned, the image or None,
\* whatever became of the file in between, and the cache holds that result.
C27_CacheConsistent ==
    \A i, j \in DOMAIN texture_loads :
        (i < j /\ texture_loads[i].path = texture_loads[j].path) =>
            /\ texture_loads[j].result = texture_loads[i].result
            /\ texture_cache[texture_loads[i].path] = texture_loads[i].result

\* a path loaded twice, the first load failing, whose file now opens as an
\* image
C27_Witness ==
    /\ Len(texture_loads) >= 2
    /\ texture_loads[1].path = texture_loads[2].path
    /\ texture_loads[1].result = NoImage
    /\ load_texture(texture_disk, texture_loads[1].path) # NoImage


-----------------------------------------------------------------------------
(* Where the voxels of a placed block land.                                 *)

\* the position lies in the 16^3 cell of the block at (bx, by, bz)
InCellOf(mc_block, pos) ==
    /\ 16 * mc_block.x <= pos[1] /\ pos[1] < 16 * mc_block.x + 16
    /\ 16 * mc_block.z <= pos[2] /\ pos[2] < 16 * mc_block.z + 16
    /\ 16 * mc_block.y <= pos[3] /\ pos[3] < 16 * mc_block.y + 16

\* C28: every voxel assemble_blueprint places for a block at (bx,by,bz),
\* whatever orientation pair determine_rotation returns for it, satisfies
\* 16*bx <= x < 16*bx+16, 16*bz <= y < 16*bz+16 and 16*by <= z < 16*by+16,
\* so voxels of two blocks never share a coordinate and deduplication
\* removes none of them.
C28_StaysInCell ==
    /\ (pc = "place" /\ idx > 0) =>
          \A n \in DOMAIN LastPlaced : InCellOf(LastBlock, LastPlaced[n].pos)
    /\ pc = "hollow" => Len(parts) = Len(parts0)

\* what the code does: the voxels stay in the cell when the pair is none of
\* the three that rotate_position turns by
StaysInCellAsCoded ==
    (/\ pc = "place"
     /\ idx > 0
     /\ determine_rotation(LastBlock.name, LastBlock.data)
           \notin {<<-1, 3>>, <<3, 1>>, <<-3, 1>>})
    => \A n \in DOMAIN LastPlaced : InCellOf(LastBlock, LastPlaced[n].pos)


-----------------------------------------------------------------------------
(* A run of assemble_blueprint on a schematic without blocks.               *)

\* C29: assemble_blueprint on a schematic with no non-air block and with
\* hollowing enabled raises no error and writes exactly one structure, which
\* holds no voxel.
C29_EmptyInput ==
    (Len(blocks) = 0 /\ flags.hollow) =>
        /\ pc # "error"
        /\ pc = "done" => written = << <<>> >>

\* what the code does: with hollowing the run ends in the error of the
\* reduction percentage and writes nothing; without hollowing it writes one
\* structure without voxels
EmptyInputAsCoded ==
    Len(blocks) = 0 =>
        /\ flags.hollow => /\ pc \in {"place", "hollow", "error"}
                           /\ written = <<>>
        /\ (~flags.hollow /\ pc = "done") => written = << <<>> >>


-----------------------------------------------------------------------------
(* resolve_model: the texture variables of the faces of a model, one step  *)
(* per pass through the dereference loop.                                   *)

MaxFaces == 2

\* the bound of the dereference loop: depth < 10
MAX_DEPTH == 10

sASSETS == <<"a", "s", "s", "e", "t", "s">>
sMINECRAFT == <<"m", "i", "n", "e", "c", "r", "a", "f", "t">>
sTEXTURES == <<"t", "e", "x", "t", "u", "r", "e", "s">>
sBLOCK_SLASH == <<"b", "l", "o", "c", "k", "/">>
sPNG == <<".", "p", "n", "g">>
sMINECRAFT_BLOCK_STONE ==
    <<"m", "i", "n", "e", "c", "r", "a", "f", "t", ":", "b", "l", "o", "c", "k",
      "/", "s", "t", "o", "n", "e">>
sMOD_ITEM_X_PNG ==
    <<"m", "o", "d", ":", "i", "t", "e", "m", "/", "x", ".", "p", "n", "g">>

\* str.startswith(prefix)
StartsWith(str, prefix) ==
    /\ Len(str) >= Len(prefix)
    /\ SubSeq(str, 1, Len(prefix)) = prefix

\* str.endswith(suffix)
EndsWith(str, suffix) ==
    /\ Len(str) >= Len(suffix)
    /\ SubSeq(str, Len(str) - Len(suffix) + 1, Len(str)) = suffix

\* str[n:]
From(str, n) == SubSeq(str, n + 1, Len(str))

\* os.path.join(a, b) of posixpath
PathJoin(a, b) ==
    IF StartsWith(b, <<"/">>) THEN b
    ELSE IF a = <<>> \/ EndsWith(a, <<"/">>) THEN a \o b
    ELSE a \o <<"/">> \o b

\* the texture file of a reference that is taken as a path
TextureFile(base_dir, tex_ref) ==
    LET colon == IndexOf(tex_ref, ":")
        ns == IF colon # 0 THEN SubSeq(tex_ref, 1, colon - 1) ELSE sMINECRAFT
        path0 == IF colon # 0 THEN AfterFirst(tex_ref, ":") ELSE tex_ref
        path1 == IF IndexOf(path0, "/") = 0 THEN sBLOCK_SLASH \o path0 ELSE path0
        tex_path == IF EndsWith(path1, sPNG) THEN path1 ELSE path1 \o sPNG
    IN PathJoin(PathJoin(PathJoin(base_dir, ns), sTEXTURES), tex_path)

\* res_face: the texture file with the uv and rotation of the face copied
ResFace(face, face_data, tex_ref) ==
    [f \in {"face", "texture_file"}
           \cup (DOMAIN face_data \cap {"uv", "rotation"}) |->
        IF f = "face" THEN face
        ELSE IF f = "texture_file" THEN TextureFile(sASSETS, tex_ref)
        ELSE face_data[f]]

\* the condition of the while loop and of the lookup in its body
LoopGoesOn(textures, tex_ref, depth) ==
    /\ StartsWith(tex_ref, <<"#">>)
    /\ depth < MAX_DEPTH
    /\ From(tex_ref, 1) \in DOMAIN textures

\* the texture variables of the models at hand, and what they can be set to:
\* a reference to a, to b, to a variable no model has, or a texture path
TextureKeys == {<<"a">>, <<"b">>}

TextureValues ==
    {<<"#", "a">>, <<"#", "b">>, <<"#", "c">>, sMINECRAFT_BLOCK_STONE}

\* the faces of the models at hand
FaceDatas ==
    {[texture |-> <<"#", "a">>],
     [texture |-> <<"#", "#", "b">>, uv |-> <<0, 0, 8, 8>>, rotation |-> 90],
     [texture |-> sMOD_ITEM_X_PNG],
     [uv |-> <<0, 0, 16, 16>>]}

InitResolve ==
    /\ \E S \in SUBSET TextureKeys :
       \E textures \in [S -> TextureValues] :
       \E faces \in SeqsUpTo(FaceDatas, MaxFaces) :
          raw_model = [textures |-> textures,
                       from |-> <<0, 0, 0>>, to |-> <<16, 16, 16>>,
                       faces |-> faces]
    /\ resolved_model = [pos |-> "face", face |-> 1, tex_ref |-> <<>>,
                         depth |-> 0, res_faces |-> <<>>, exits |-> <<>>]
    /\ resolver_calls = <<>>
    /\ rotation_call = [kind |-> "none"]
    /\ texture_cache = <<>>
    /\ texture_disk = <<>>
    /\ texture_loads = <<>>
    /\ parts = <<>>
    /\ parts0 = <<>>
    /\ op = "resolve"
    /\ chunks = <<>>
    /\ maxVoxels = 0
    /\ NoRun
    /\ NoFiles
    /\ NoModel
    /\ NoCli

ResolveFrame ==
    /\ UNCHANGED <<raw_model, resolver_calls, rotation_call, texture_cache,
                   texture_disk, texture_loads>>
    /\ UNCHANGED passVars
    /\ UNCHANGED runVars
    /\ UNCHANGED fileVars
    /\ UNCHANGED voxVars
    /\ UNCHANGED cliVars

\* the state after a face is done: the face that comes next, the result of
\* this one if it has one, and how its loop ended (depth and reference)
FaceDone(res, depth, tex_ref) ==
    [pos |-> "face", face |-> resolved_model.face + 1, tex_ref |-> <<>>,
     depth |-> 0,
     res_faces |-> resolved_model.res_faces \o res,
     exits |-> Append(resolved_model.exits, [depth |-> depth, tex_ref |-> tex_ref])]

\* the start of a face: up to the while loop when the face's variable is a
\* key of textures, else the whole iteration
FaceStart ==
    /\ resolved_model.pos = "face"
    /\ resolved_model.face <= Len(raw_model.faces)
    /\ LET face == face_order[resolved_model.face]
           face_data == raw_model.faces[resolved_model.face]
           textures == raw_model.textures
       IN IF "texture" \notin DOMAIN face_data
          THEN resolved_model' = FaceDone(<<>>, 0, <<>>)
          ELSE LET tex_var == IF StartsWith(face_data.texture, <<"#", "#">>)
                              THEN <<"#">> \o From(face_data.texture, 2)
                              ELSE face_data.texture
               IN IF StartsWith(tex_var, <<"#">>)
                  THEN IF From(tex_var, 1) \in DOMAIN textures
                       THEN resolved_model' =
                               [resolved_model EXCEPT
                                   !.pos = "loop",
                                   !.tex_ref = textures[From(tex_var, 1)],
                                   !.depth = 0]
                       ELSE resolved_model' =
                               FaceDone(<<ResFace(face, face_data, From(tex_var, 1))>>,
                                        0, From(tex_var, 1))
                  ELSE resolved_model' =
                          FaceDone(<<ResFace(face, face_data, tex_var)>>, 0, tex_var)
    /\ ResolveFrame

\* a pass through the loop that neither counts nor stops at a depth
DerefStepUnbounded ==
    /\ resolved_model.pos = "loop"
    /\ StartsWith(resolved_model.tex_ref, <<"#">>)
    /\ From(resolved_model.tex_ref, 1) \in DOMAIN raw_model.textures
    /\ resolved_model' =
          [resolved_model EXCEPT
              !.tex_ref = raw_model.textures[From(resolved_model.tex_ref, 1)]]
    /\ ResolveFrame

\* one pass through the while loop
DerefStep ==
    /\ resolved_model.pos = "loop"
    /\ LoopGoesOn(raw_model.textures, resolved_model.tex_ref, resolved_model.depth)
    /\ resolved_model' =
          [resolved_model EXCEPT
              !.tex_ref = raw_model.textures[From(resolved_model.tex_ref, 1)],
              !.depth = resolved_model.depth + 1]
    /\ ResolveFrame

\* the loop is left: a reference that is still a variable loses its '#' and
\* is taken as a path
FaceEnd ==
    /\ resolved_model.pos = "loop"
    /\ ~LoopGoesOn(raw_model.textures, resolved_model.tex_ref, resolved_model.depth)
    /\ LET tex_ref == IF StartsWith(resolved_model.tex_ref, <<"#">>)
                      THEN From(resolved_model.tex_ref, 1)
                      ELSE resolved_model.tex_ref
       IN resolved_model' =
              FaceDone(<<ResFace(face_order[resolved_model.face],
                                 raw_model.faces[resolved_model.face], tex_ref)>>,
                       resolved_model.depth, resolved_model.tex_ref)
    /\ ResolveFrame

\* after the last face the element is appended and the list returned
ElementEnd ==
    /\ resolved_model.pos = "face"
    /\ resolved_model.face > Len(raw_model.faces)
    /\ resolved_model' = [resolved_model EXCEPT !.pos = "done"]
    /\ ResolveFrame

NextResolve == FaceStart \/ DerefStep \/ FaceEnd \/ ElementEnd

SpecResolve == InitResolve /\ [][NextResolve]_vars

\* the interpreter keeps executing the function's statements
SpecResolveFair == SpecResolve /\ WF_vars(NextResolve)

\* the texture variables refer to each other in a circle
CyclicTextures ==
    /\ DOMAIN raw_model.textures = TextureKeys
    /\ raw_model.textures[<<"a">>] = <<"#", "b">>
    /\ raw_model.textures[<<"b">>] = <<"#", "a">>

\* the loop takes at most 10 passes per face, and a reference that is still
\* a variable when the loop is left gives the file of its name as a path
BoundedLoop ==
    /\ resolved_model.depth <= MAX_DEPTH
    /\ Len(resolved_model.exits) = resolved_model.face - 1
    /\ \A n \in DOMAIN resolved_model.exits :
          resolved_model.exits[n].depth <= MAX_DEPTH
    /\ \A r \in Range(resolved_model.res_faces) :
          LET n == CHOOSE n \in DOMAIN face_order : face_order[n] = r.face
              left == resolved_model.exits[n].tex_ref
          IN r.texture_file =
                 TextureFile(sASSETS, IF StartsWith(left, <<"#">>)
                                      THEN From(left, 1) ELSE left)
    /\ (CyclicTextures /\ resolved_model.pos = "done") =>
          \A r \in Range(resolved_model.res_faces) :
              raw_model.faces[CHOOSE n \in DOMAIN face_order :
                                  face_order[n] = r.face].texture
                  = <<"#", "a">>
              => r.texture_file
                    = <<"a", "s", "s", "e", "t", "s", "/", "m", "i", "n", "e",
                        "c", "r", "a", "f", "t", "/", "t", "e", "x", "t", "u",
                        "r", "e", "s", "/", "b", "l", "o", "c", "k", "/", "b",
                        ".", "p", "n", "g">>

\* C30: resolve_model finishes for every model, one whose texture variables
\* refer to each other in a circle included; the dereference loop takes at
\* most 10 steps per face, and a reference that is still a variable after
\* the loop is taken as a texture path and not followed further.
C30_ResolveTerminates ==
    /\ <>(resolved_model.pos = "done")
    /\ []BoundedLoop

\* a model with a -> #b and b -> #a resolved after 10 passes of the loop
C30_Witness ==
    /\ resolved_model.pos = "done"
    /\ CyclicTextures
    /\ Len(resolved_model.exits) >= 1
    /\ resolved_model.exits[1].depth = MAX_DEPTH
    /\ Len(resolved_model.res_faces) >= 1

=============================================================================
